---- MODULE Spec2Model ----
(***************************************************************************)
(* SigFinder: the signal segmentation, denoising and origin-estimation     *)
(* pipeline of sigfinder/analysis_window.py (class AnalysisWindow).        *)
(*                                                                         *)
(* Number representation.  The program works on Python floats.  The model  *)
(* uses exact fixed-point integers:                                        *)
(*   - RSSI values and thresholds are whole dBm;                           *)
(*   - latitudes and longitudes are in units of 0.00001 degree, so the     *)
(*     0.0001 degree continuity window is 10 units;                        *)
(*   - timestamps are whole seconds.                                       *)
(* Comparisons against x.5 values are written with both sides doubled.     *)
(* Only finite numbers are modelled (no NaN/inf), and positions whose      *)
(* distance is exactly 0.0001 degree are left out, because the float       *)
(* subtraction there rounds to either side of the window.                  *)
(***************************************************************************)
EXTENDS Integers, Sequences, FiniteSets, TLC

(***************************************************************************)
(* Bounds of the model.                                                    *)
(***************************************************************************)
MaxRows == 5
MaxLen == 6
MaxPoints == 5

(***************************************************************************)
(* Program constants.                                                      *)
(***************************************************************************)
MinOutlierLen == 4
PosWindow == 10
OscRateNum == 5
OscRateDen == 2
OscAbsLimit == 5
SampleHz == 20

(***************************************************************************)
(* Input domains.                                                          *)
(***************************************************************************)
Thresholds == {-100, -70}
BasePos == [lat |-> 1000, lon |-> 2000]
BaseLat == BasePos.lat
BaseLon == BasePos.lon

VARIABLES
  min_rssi,          \* analyze_csv: parameter min_rssi
  pc,                \* analyze_csv: control position
  nrows,             \* analyze_csv: number of rows the reader has yielded
  row,               \* analyze_csv: the row of the current loop iteration
  current_segment,   \* analyze_csv: current_segment (NoSegment = None)
  signal_segments,   \* analyze_csv: signal_segments
  seg_idx,           \* analyze_csv: position of the filter loop in signal_segments
  signal_points,     \* analyze_csv: signal_points
  result,            \* analyze_csv: the returned list
  warned,            \* analyze_csv: QMessageBox.warning was shown
  hist,              \* history: for every row read, where the scan put it
  values,            \* function harness: the argument list
  threshold,         \* function harness: the threshold argument
  fpc,               \* function harness: control position
  cleaned,           \* function harness: remove_outliers(values)
  cleaned2,          \* function harness: remove_outliers(cleaned)
  crossings,         \* function harness: count_oscillations(values, threshold)
  est_points,        \* estimate_signal_origin: parameter signal_points
  epc,               \* estimate_signal_origin: control position
  est_strong,        \* estimate_signal_origin: strong_signals of the call
  origin,            \* estimate_signal_origin: the returned value
  file_list,         \* update_analysis: file_list with what each file holds
  upc,               \* update_analysis: control position
  idx,               \* update_analysis: idx of the loop over file_list
  file_datasets,     \* update_analysis: local file_datasets
  all_signal_points, \* update_analysis: local all_signal_points
  self_file_datasets,     \* self.file_datasets
  current_signal_points,  \* self.current_signal_points
  current_origin,         \* self.current_origin
  dataset_checkboxes,     \* self.dataset_checkboxes (isChecked of each)
  shown,             \* what the map view was last given to render
  parsed,            \* history: number of analyze_csv calls so far
  color_arg,         \* calculate_color: parameter rssi_above_threshold
  color_ret,         \* calculate_color: the returned colour
  gui_log,           \* main.gui_log
  gui_log_lock,      \* main.gui_log_lock: the thread holding it
  gps_pc,            \* gps_reader: control position in the logging block
  appended,          \* gps_reader: number of messages logged so far
  get_pc,            \* get_logs: control position of each caller
  msgs,              \* get_logs: local msgs of each caller
  returned,          \* history: the lists get_logs returned, in return order
  coord,             \* _nmea_to_decimal: parameter coord
  hemi,              \* _nmea_to_decimal: parameter hemi
  dec,               \* _nmea_to_decimal: the returned value
  last_triggered_state,   \* self.last_triggered_state
  triggered_markers,      \* self.triggered_markers
  range_trigger_value,    \* self.range_trigger_value
  poll,              \* history: what the latest update_marker call did
  csv_file,          \* self.csv_file
  csv_writer,        \* self.csv_writer
  session_paused,    \* self.session_paused
  files,             \* the session files created so far: open or closed
  gui_pc,            \* GUI thread: control position in the session handlers
  smp_pc,            \* sampler thread: control position in log_rssi_sample
  last_write         \* history: the latest writerow call and what it met

csv_vars == <<min_rssi, pc, nrows, row, current_segment, signal_segments,
              seg_idx, signal_points, result, warned, hist>>
fn_vars == <<values, threshold, fpc, cleaned, cleaned2, crossings>>
org_vars == <<est_points, epc, est_strong, origin>>
ua_vars == <<file_list, upc, idx, file_datasets, all_signal_points,
             self_file_datasets, current_signal_points, current_origin,
             dataset_checkboxes, shown, parsed>>
col_vars == <<color_arg, color_ret>>
log_vars == <<gui_log, gui_log_lock, gps_pc, appended, get_pc, msgs, returned>>
nmea_vars == <<coord, hemi, dec>>
mk_vars == <<last_triggered_state, triggered_markers, range_trigger_value, poll>>
ses_vars == <<csv_file, csv_writer, session_paused, files, gui_pc, smp_pc, last_write>>
ext_vars == <<col_vars, log_vars, nmea_vars, mk_vars, ses_vars>>
base_vars == <<csv_vars, fn_vars, org_vars, ua_vars>>
vars == <<min_rssi, pc, nrows, row, current_segment, signal_segments,
          seg_idx, signal_points, result, warned, hist,
          values, threshold, fpc, cleaned, cleaned2, crossings,
          est_points, epc, est_strong, origin,
          file_list, upc, idx, file_datasets, all_signal_points,
          self_file_datasets, current_signal_points, current_origin,
          dataset_checkboxes, shown, parsed,
          color_arg, color_ret,
          gui_log, gui_log_lock, gps_pc, appended, get_pc, msgs, returned,
          coord, hemi, dec,
          last_triggered_state, triggered_markers, range_trigger_value, poll,
          csv_file, csv_writer, session_paused, files, gui_pc, smp_pc, last_write>>

(***************************************************************************)
(* Sequence helpers (Python built-ins).                                    *)
(***************************************************************************)
RECURSIVE SumSeq(_)
SumSeq(s) == IF s = <<>> THEN 0 ELSE Head(s) + SumSeq(Tail(s))

RECURSIVE MaxSeq(_)
MaxSeq(s) ==
  IF Len(s) = 1 THEN s[1]
  ELSE LET m == MaxSeq(Tail(s)) IN IF Head(s) >= m THEN Head(s) ELSE m

\* insert v into the ascending sequence s, after the elements equal to it
RECURSIVE Insert(_, _)
Insert(v, s) ==
  IF s = <<>> THEN <<v>>
  ELSE IF v < Head(s) THEN <<v>> \o s
  ELSE <<Head(s)>> \o Insert(v, Tail(s))

\* sorted(values): ascending order
RECURSIVE Sorted(_)
Sorted(s) ==
  IF s = <<>> THEN <<>>
  ELSE Insert(s[Len(s)], Sorted(SubSeq(s, 1, Len(s) - 1)))

(***************************************************************************)
(* remove_outliers(values): IQR filter.  Python indexes from 0, TLA+ from  *)
(* 1.  lower_bound = q1 - 1.5*iqr and upper_bound = q3 + 1.5*iqr are       *)
(* compared doubled.                                                       *)
(***************************************************************************)
\* faulty variant: too few values give "no data" instead of the input
remove_outliers_ShortEmpty(vals) ==
  IF Len(vals) < MinOutlierLen THEN <<>>
  ELSE
    LET sorted_values == Sorted(vals)
        n == Len(sorted_values)
        q1 == sorted_values[(n \div 4) + 1]
        q3 == sorted_values[((3 * n) \div 4) + 1]
        iqr == q3 - q1
        InRange(v) == (2 * q1 - 3 * iqr <= 2 * v) /\ (2 * v <= 2 * q3 + 3 * iqr)
        kept == SelectSeq(vals, InRange)
    IN IF kept # <<>> THEN kept ELSE vals

\* faulty variant: the quartiles are read from the unsorted list
remove_outliers_NoSort(vals) ==
  IF Len(vals) < MinOutlierLen THEN vals
  ELSE
    LET n == Len(vals)
        q1 == vals[(n \div 4) + 1]
        q3 == vals[((3 * n) \div 4) + 1]
        iqr == q3 - q1
        InRange(v) == (2 * q1 - 3 * iqr <= 2 * v) /\ (2 * v <= 2 * q3 + 3 * iqr)
        kept == SelectSeq(vals, InRange)
    IN IF kept # <<>> THEN kept ELSE vals

\* faulty variant: the fences lie 1.5*iqr inside the quartiles
remove_outliers_FencesInside(vals) ==
  IF Len(vals) < MinOutlierLen THEN vals
  ELSE
    LET sorted_values == Sorted(vals)
        n == Len(sorted_values)
        q1 == sorted_values[(n \div 4) + 1]
        q3 == sorted_values[((3 * n) \div 4) + 1]
        iqr == q3 - q1
        InRange(v) == (2 * q1 + 3 * iqr <= 2 * v) /\ (2 * v <= 2 * q3 - 3 * iqr)
        kept == SelectSeq(vals, InRange)
    IN IF kept # <<>> THEN kept ELSE vals

remove_outliers(vals) ==
  IF Len(vals) < MinOutlierLen THEN vals
  ELSE
    LET sorted_values == Sorted(vals)
        n == Len(sorted_values)
        q1_idx == n \div 4
        q3_idx == (3 * n) \div 4
        q1 == sorted_values[q1_idx + 1]
        q3 == sorted_values[q3_idx + 1]
        iqr == q3 - q1
        InRange(v) == (2 * q1 - 3 * iqr <= 2 * v) /\ (2 * v <= 2 * q3 + 3 * iqr)
        kept == SelectSeq(vals, InRange)
    IN IF kept # <<>> THEN kept ELSE vals

(***************************************************************************)
(* count_oscillations(rssi_values, threshold)                              *)
(***************************************************************************)
RECURSIVE CountFrom(_, _, _, _)
CountFrom(rssi_values, thr, i, was_above) ==
  IF i > Len(rssi_values) THEN 0
  ELSE LET is_above == (rssi_values[i] >= thr)
       IN IF is_above # was_above
          THEN 1 + CountFrom(rssi_values, thr, i + 1, is_above)
          ELSE CountFrom(rssi_values, thr, i + 1, was_above)

\* faulty variant: "above" means > threshold instead of >= threshold
count_oscillations_Strict(rssi_values, thr) ==
  IF Len(rssi_values) < 2 THEN 0
  ELSE CountFrom(rssi_values, thr + 1, 2, rssi_values[1] >= thr + 1)

count_oscillations(rssi_values, thr) ==
  IF Len(rssi_values) < 2 THEN 0
  ELSE CountFrom(rssi_values, thr, 2, rssi_values[1] >= thr)

(***************************************************************************)
(* calculate_color(rssi_above_threshold): five-tier step function.         *)
(***************************************************************************)
\* the tiers with exclusive lower bounds
calculate_color_Exclusive(rssi_above_threshold) ==
  IF rssi_above_threshold > 20 THEN "#00FF00"
  ELSE IF rssi_above_threshold > 15 THEN "#7FFF00"
  ELSE IF rssi_above_threshold > 10 THEN "#FFFF00"
  ELSE IF rssi_above_threshold > 5 THEN "#FFA500"
  ELSE "#FF4500"

calculate_color(rssi_above_threshold) ==
  IF rssi_above_threshold >= 20 THEN "#00FF00"
  ELSE IF rssi_above_threshold >= 15 THEN "#7FFF00"
  ELSE IF rssi_above_threshold >= 10 THEN "#FFFF00"
  ELSE IF rssi_above_threshold >= 5 THEN "#FFA500"
  ELSE "#FF4500"

(***************************************************************************)
(* CSV rows.  kind "ok": RSSI, latitude and longitude parse as floats; the *)
(* timestamp is <<t>> when present and parseable, <<>> otherwise.          *)
(* kind "bad": a required field is not numeric (float() raises ValueError).*)
(* kind "short": the row has fewer fields than the header, DictReader      *)
(* fills the field with None and float(None) raises TypeError.             *)
(***************************************************************************)
OkRow(r, la, lo, t) ==
  [kind |-> "ok", rssi |-> r, lat |-> la, lon |-> lo, timestamp |-> t]

BadRow == [kind |-> "bad", rssi |-> 0, lat |-> 0, lon |-> 0, timestamp |-> <<>>]
ShortRow == [kind |-> "short", rssi |-> 0, lat |-> 0, lon |-> 0, timestamp |-> <<>>]
NoRow == [kind |-> "none", rssi |-> 0, lat |-> 0, lon |-> 0, timestamp |-> <<>>]

Rows ==
  {OkRow(r, BaseLat, BaseLon, <<>>) : r \in {-101, -70}}
    \cup {OkRow(-100, BaseLat, BaseLon, <<t>>) : t \in {1, 2}}
    \cup {OkRow(-70, la, BaseLon, <<>>) : la \in {0, BaseLat + 9, BaseLat + 11}}
    \cup {OkRow(-70, BaseLat, lo, <<>>) : lo \in {0, BaseLon + 11}}
    \cup {BadRow, ShortRow}

(***************************************************************************)
(* Segments (the dict built in analyze_csv).                               *)
(***************************************************************************)
NoSegment ==
  [lat |-> 0, lon |-> 0, rssi_max |-> 0, rssi_sum |-> 0, rssi_values |-> <<>>,
   timestamps |-> <<>>, count |-> 0, min_rssi_threshold |-> 0]

NewSegment(r, thr) ==
  [lat |-> r.lat, lon |-> r.lon, rssi_max |-> r.rssi, rssi_sum |-> r.rssi,
   rssi_values |-> <<r.rssi>>, timestamps |-> r.timestamp, count |-> 1,
   min_rssi_threshold |-> thr]

ExtendedSegment(seg, r) ==
  [seg EXCEPT !.lat = r.lat,
              !.lon = r.lon,
              !.rssi_max = IF r.rssi > seg.rssi_max THEN r.rssi ELSE seg.rssi_max,
              !.rssi_sum = seg.rssi_sum + r.rssi,
              !.rssi_values = Append(seg.rssi_values, r.rssi),
              !.timestamps = seg.timestamps \o r.timestamp,
              !.count = seg.count + 1]

Abs(x) == IF x < 0 THEN -x ELSE x

\* faulty variant: ">" instead of ">=" in the admission test (threshold itself rejected)
Rejected_Strict(r, thr) == r.rssi <= thr \/ r.lat = 0 \/ r.lon = 0

\* faulty variant: rows up to 1 dB below the threshold are admitted
Rejected_Margin(r, thr) == r.rssi < thr - 1 \/ r.lat = 0 \/ r.lon = 0

\* "if rssi < min_rssi or lat == 0.0 or lon == 0.0"
Rejected(r, thr) == r.rssi < thr \/ r.lat = 0 \/ r.lon = 0

\* faulty variant: "or" instead of "and" in the continuity test
IsClose_Or(r, seg) ==
  LET lat_diff == Abs(r.lat - seg.lat)
      lon_diff == Abs(r.lon - seg.lon)
  IN lat_diff < PosWindow \/ lon_diff < PosWindow

\* "if lat_diff < 0.0001 and lon_diff < 0.0001"
IsClose(r, seg) ==
  LET lat_diff == Abs(r.lat - seg.lat)
      lon_diff == Abs(r.lon - seg.lon)
  IN lat_diff < PosWindow /\ lon_diff < PosWindow

\* History entry of a row: "valid" is the admission condition evaluated on the
\* row alone (rssi is kept for valid rows only), "seg" is the number of the
\* segment the scan stored the row in (0: stored nowhere).
Valid(r) == r.kind = "ok" /\ r.rssi >= min_rssi /\ r.lat # 0 /\ r.lon # 0

Record(r, segno) ==
  hist' = Append(hist, [kind |-> r.kind,
                        valid |-> Valid(r),
                        rssi |-> IF Valid(r) THEN r.rssi ELSE 0,
                        seg |-> segno])

(***************************************************************************)
(* analyze_csv: opening the file.                                          *)
(***************************************************************************)
OpenFile ==
  /\ pc = "open"
  /\ pc' = "scan"
  /\ UNCHANGED <<min_rssi, nrows, row, current_segment, signal_segments, seg_idx,
                 signal_points, result, warned, hist>>
  /\ UNCHANGED <<fn_vars, org_vars, ua_vars, ext_vars>>

OpenFails ==
  /\ pc = "open"
  /\ pc' = "done"
  /\ warned' = TRUE
  /\ result' = <<>>
  /\ UNCHANGED <<min_rssi, nrows, row, current_segment, signal_segments, seg_idx,
                 signal_points, hist>>
  /\ UNCHANGED <<fn_vars, org_vars, ua_vars, ext_vars>>

(***************************************************************************)
(* analyze_csv: one iteration of "for row in reader".                      *)
(***************************************************************************)
ReadRow(r, segno) ==
  /\ pc = "scan"
  /\ nrows < MaxRows
  /\ nrows' = nrows + 1
  /\ row' = r
  /\ Record(r, segno)
  /\ UNCHANGED <<min_rssi, seg_idx, signal_points>>
  /\ UNCHANGED <<fn_vars, org_vars, ua_vars, ext_vars>>

\* faulty variant: a rejected row does not end the open segment
RejectRow_KeepOpen ==
  \E r \in Rows :
    /\ r.kind = "ok"
    /\ Rejected(r, min_rssi)
    /\ ReadRow(r, 0)
    /\ UNCHANGED <<signal_segments, current_segment, pc, result, warned>>

RejectRow ==
  \E r \in Rows :
    /\ r.kind = "ok"
    /\ Rejected(r, min_rssi)
    /\ ReadRow(r, 0)
    /\ IF current_segment # NoSegment
       THEN /\ signal_segments' = Append(signal_segments, current_segment)
            /\ current_segment' = NoSegment
       ELSE UNCHANGED <<signal_segments, current_segment>>
    /\ UNCHANGED <<pc, result, warned>>

StartSegment ==
  \E r \in Rows :
    /\ r.kind = "ok"
    /\ ~Rejected(r, min_rssi)
    /\ current_segment = NoSegment
    /\ ReadRow(r, Len(signal_segments) + 1)
    /\ current_segment' = NewSegment(r, min_rssi)
    /\ UNCHANGED <<signal_segments, pc, result, warned>>

ExtendSegment ==
  \E r \in Rows :
    /\ r.kind = "ok"
    /\ ~Rejected(r, min_rssi)
    /\ current_segment # NoSegment
    /\ IsClose(r, current_segment)
    /\ ReadRow(r, Len(signal_segments) + 1)
    /\ current_segment' = ExtendedSegment(current_segment, r)
    /\ UNCHANGED <<signal_segments, pc, result, warned>>

SplitSegment ==
  \E r \in Rows :
    /\ r.kind = "ok"
    /\ ~Rejected(r, min_rssi)
    /\ current_segment # NoSegment
    /\ ~IsClose(r, current_segment)
    /\ ReadRow(r, Len(signal_segments) + 2)
    /\ signal_segments' = Append(signal_segments, current_segment)
    /\ current_segment' = NewSegment(r, min_rssi)
    /\ UNCHANGED <<pc, result, warned>>

\* "except (KeyError, ValueError): continue"
SkipMalformedRow ==
  \E r \in Rows :
    /\ r.kind = "bad"
    /\ ReadRow(r, 0)
    /\ UNCHANGED <<current_segment, signal_segments, pc, result, warned>>

\* TypeError is not caught by the row handler: the outer "except Exception"
\* shows the warning and returns []
FailOnRow ==
  \E r \in Rows :
    /\ r.kind = "short"
    /\ pc = "scan"
    /\ nrows < MaxRows
    /\ nrows' = nrows + 1
    /\ row' = r
    /\ Record(r, 0)
    /\ pc' = "done"
    /\ warned' = TRUE
    /\ result' = <<>>
    /\ UNCHANGED <<min_rssi, seg_idx, signal_points, current_segment, signal_segments>>
    /\ UNCHANGED <<fn_vars, org_vars, ua_vars, ext_vars>>

\* faulty variant: the segment still open at end of input is forgotten
EndOfInput_DropLast ==
  /\ pc = "scan"
  /\ pc' = "filter"
  /\ seg_idx' = 1
  /\ UNCHANGED <<min_rssi, nrows, row, current_segment, signal_segments,
                 signal_points, result, warned, hist>>
  /\ UNCHANGED <<fn_vars, org_vars, ua_vars, ext_vars>>

\* the reader is exhausted: "if current_segment: signal_segments.append(...)"
EndOfInput ==
  /\ pc = "scan"
  /\ pc' = "filter"
  /\ seg_idx' = 1
  /\ signal_segments' = IF current_segment # NoSegment
                        THEN Append(signal_segments, current_segment)
                        ELSE signal_segments
  /\ UNCHANGED <<min_rssi, nrows, row, current_segment, signal_points, result,
                 warned, hist>>
  /\ UNCHANGED <<fn_vars, org_vars, ua_vars, ext_vars>>

(***************************************************************************)
(* analyze_csv: the loop "for segment in signal_segments".                 *)
(***************************************************************************)
TimeSpan(segment) ==
  segment.timestamps[Len(segment.timestamps)] - segment.timestamps[1]

\* faulty variant: the rate is computed from the number of samples, not of crossings
OscillationDiscard_SampleRate(segment) ==
  /\ Len(segment.rssi_values) > 1
  /\ LET oscillation_count == Len(segment.rssi_values)
     IN IF Len(segment.timestamps) >= 2
        THEN /\ TimeSpan(segment) > 0
             /\ OscRateDen * oscillation_count > OscRateNum * TimeSpan(segment)
        ELSE /\ oscillation_count > OscAbsLimit
             /\ Len(segment.rssi_values) > 0
             /\ OscRateDen * SampleHz * oscillation_count
                  > OscRateNum * Len(segment.rssi_values)

\* the "continue" decisions of the oscillation check; oscillation_rate > 2.5
\* is count / span > 5/2, and count / (len / 20) > 2.5
OscillationDiscard(segment) ==
  /\ Len(segment.rssi_values) > 1
  /\ LET oscillation_count ==
           count_oscillations(segment.rssi_values, segment.min_rssi_threshold)
     IN IF Len(segment.timestamps) >= 2
        THEN /\ TimeSpan(segment) > 0
             /\ OscRateDen * oscillation_count > OscRateNum * TimeSpan(segment)
        ELSE /\ oscillation_count > OscAbsLimit
             /\ Len(segment.rssi_values) > 0
             /\ OscRateDen * SampleHz * oscillation_count
                  > OscRateNum * Len(segment.rssi_values)

\* faulty variant: duration counted as intervals between samples (len - 1)
MakePoint_Intervals(segment, cleaned_rssi_values) ==
  LET rssi_max == MaxSeq(cleaned_rssi_values)
      rssi_above_threshold == rssi_max - segment.min_rssi_threshold
  IN [lat |-> segment.lat,
      lon |-> segment.lon,
      rssi_max |-> rssi_max,
      rssi_avg |-> <<SumSeq(cleaned_rssi_values), Len(cleaned_rssi_values)>>,
      duration |-> Len(cleaned_rssi_values) - 1,
      color |-> calculate_color(rssi_above_threshold)]

\* faulty variant: rssi_max taken from the segment's running maximum
MakePoint_RunningMax(segment, cleaned_rssi_values) ==
  LET rssi_max == segment.rssi_max
      rssi_above_threshold == rssi_max - segment.min_rssi_threshold
  IN [lat |-> segment.lat,
      lon |-> segment.lon,
      rssi_max |-> rssi_max,
      rssi_avg |-> <<SumSeq(cleaned_rssi_values), Len(cleaned_rssi_values)>>,
      duration |-> Len(cleaned_rssi_values),
      color |-> calculate_color(rssi_above_threshold)]

\* the dict appended to signal_points; rssi_avg = sum / len is kept as the
\* exact fraction <<sum, len>>; radius (8 + 3*log10(duration)) is not modelled
MakePoint(segment, cleaned_rssi_values) ==
  LET rssi_max == MaxSeq(cleaned_rssi_values)
      rssi_above_threshold == rssi_max - segment.min_rssi_threshold
  IN [lat |-> segment.lat,
      lon |-> segment.lon,
      rssi_max |-> rssi_max,
      rssi_avg |-> <<SumSeq(cleaned_rssi_values), Len(cleaned_rssi_values)>>,
      duration |-> Len(cleaned_rssi_values),
      color |-> calculate_color(rssi_above_threshold)]

FilterSegment ==
  /\ pc = "filter"
  /\ seg_idx <= Len(signal_segments)
  /\ LET segment == signal_segments[seg_idx]
         cleaned_rssi_values == remove_outliers(segment.rssi_values)
     IN signal_points' =
          IF OscillationDiscard(segment) THEN signal_points
          ELSE IF cleaned_rssi_values = <<>> THEN signal_points
          ELSE Append(signal_points, MakePoint(segment, cleaned_rssi_values))
  /\ seg_idx' = seg_idx + 1
  /\ UNCHANGED <<min_rssi, pc, nrows, row, current_segment, signal_segments,
                 result, warned, hist>>
  /\ UNCHANGED <<fn_vars, org_vars, ua_vars, ext_vars>>

ReturnPoints ==
  /\ pc = "filter"
  /\ seg_idx > Len(signal_segments)
  /\ pc' = "done"
  /\ result' = signal_points
  /\ UNCHANGED <<min_rssi, nrows, row, current_segment, signal_segments, seg_idx,
                 signal_points, warned, hist>>
  /\ UNCHANGED <<fn_vars, org_vars, ua_vars, ext_vars>>

(***************************************************************************)
(* Function harness: remove_outliers and count_oscillations applied to     *)
(* every list of at most MaxLen values.                                    *)
(***************************************************************************)
FnVals == {-100, -82, -81, -60}
FnThresholds == {-90, -81}

RECURSIVE SeqsUpTo(_, _)
SeqsUpTo(S, n) ==
  IF n = 0 THEN {<<>>}
  ELSE LET shorter == SeqsUpTo(S, n - 1)
       IN shorter \cup {Append(s, v) : s \in {t \in shorter : Len(t) = n - 1}, v \in S}

CallRemoveOutliers ==
  /\ fpc = "start"
  /\ fpc' = "cleaned"
  /\ cleaned' = remove_outliers(values)
  /\ UNCHANGED <<values, threshold, cleaned2, crossings>>
  /\ UNCHANGED <<csv_vars, org_vars, ua_vars, ext_vars>>

CallRemoveOutliersAgain ==
  /\ fpc = "cleaned"
  /\ fpc' = "cleaned2"
  /\ cleaned2' = remove_outliers(cleaned)
  /\ UNCHANGED <<values, threshold, cleaned, crossings>>
  /\ UNCHANGED <<csv_vars, org_vars, ua_vars, ext_vars>>

CallCountOscillations ==
  /\ fpc = "start"
  /\ fpc' = "counted"
  /\ crossings' = count_oscillations(values, threshold)
  /\ UNCHANGED <<values, threshold, cleaned, cleaned2>>
  /\ UNCHANGED <<csv_vars, org_vars, ua_vars, ext_vars>>

(***************************************************************************)
(* estimate_signal_origin(signal_points).  A quotient n / d is kept as the  *)
(* exact fraction <<n, d>>; a division by zero is the outcome               *)
(* "ZeroDivisionError" (the call raises and returns nothing).               *)
(***************************************************************************)
MinStrong == 2
StrongNum == 3
StrongDen == 5

NoneOrigin ==
  [kind |-> "None", lat |-> <<0, 1>>, lon |-> <<0, 1>>,
   ns_span |-> 0, ew_span |-> 0, confidence |-> 0]

ZeroDivisionError ==
  [kind |-> "ZeroDivisionError", lat |-> <<0, 1>>, lon |-> <<0, 1>>,
   ns_span |-> 0, ew_span |-> 0, confidence |-> 0]

\* faulty variant: a point goes in front of the points of equal rssi_max
RECURSIVE InsertByStrength_BeforeEqual(_, _)
InsertByStrength_BeforeEqual(p, s) ==
  IF s = <<>> THEN <<p>>
  ELSE IF Head(s).rssi_max > p.rssi_max
       THEN <<Head(s)>> \o InsertByStrength_BeforeEqual(p, Tail(s))
       ELSE <<p>> \o s

\* sorted() is stable, also with reverse=True: a point goes behind every
\* point of greater or equal rssi_max that precedes it in the input
RECURSIVE InsertByStrength(_, _)
InsertByStrength(p, s) ==
  IF s = <<>> THEN <<p>>
  ELSE IF Head(s).rssi_max >= p.rssi_max
       THEN <<Head(s)>> \o InsertByStrength(p, Tail(s))
       ELSE <<p>> \o s

\* sorted(signal_points, key=lambda p: p['rssi_max'], reverse=True)
RECURSIVE sorted_by_strength(_)
sorted_by_strength(pts) ==
  IF pts = <<>> THEN <<>>
  ELSE InsertByStrength(pts[Len(pts)], sorted_by_strength(SubSeq(pts, 1, Len(pts) - 1)))

\* faulty variant: 60% rounded up
StrongCount_Ceil(n) ==
  LET share == (StrongNum * n + StrongDen - 1) \div StrongDen
  IN IF share > MinStrong THEN share ELSE MinStrong

\* max(2, int(len(sorted_by_strength) * 0.6)); int() truncates, and the float
\* product n * 0.6 truncates to floor(3n / 5) for every n below 200
StrongCount(n) ==
  LET share == (StrongNum * n) \div StrongDen
  IN IF share > MinStrong THEN share ELSE MinStrong

\* sorted_by_strength[:max(2, int(len(sorted_by_strength) * 0.6))]
strong_signals(pts) ==
  LET s == sorted_by_strength(pts)
      k == StrongCount(Len(s))
  IN SubSeq(s, 1, IF k < Len(s) THEN k ELSE Len(s))

\* max() and min() with a key return the first extremal element
northmost(strong) ==
  strong[CHOOSE i \in 1..Len(strong) :
           /\ \A j \in 1..Len(strong) : strong[j].lat <= strong[i].lat
           /\ \A j \in 1..(i - 1) : strong[j].lat < strong[i].lat]

southmost(strong) ==
  strong[CHOOSE i \in 1..Len(strong) :
           /\ \A j \in 1..Len(strong) : strong[j].lat >= strong[i].lat
           /\ \A j \in 1..(i - 1) : strong[j].lat > strong[i].lat]

eastmost(strong) ==
  strong[CHOOSE i \in 1..Len(strong) :
           /\ \A j \in 1..Len(strong) : strong[j].lon <= strong[i].lon
           /\ \A j \in 1..(i - 1) : strong[j].lon < strong[i].lon]

westmost(strong) ==
  strong[CHOOSE i \in 1..Len(strong) :
           /\ \A j \in 1..Len(strong) : strong[j].lon >= strong[i].lon
           /\ \A j \in 1..(i - 1) : strong[j].lon > strong[i].lon]

\* sum(p['lat'] * p['rssi_max'] for p in strong_signals)
RECURSIVE SumLatWeighted(_)
SumLatWeighted(s) ==
  IF s = <<>> THEN 0 ELSE Head(s).lat * Head(s).rssi_max + SumLatWeighted(Tail(s))

\* sum(p['lon'] * p['rssi_max'] for p in strong_signals)
RECURSIVE SumLonWeighted(_)
SumLonWeighted(s) ==
  IF s = <<>> THEN 0 ELSE Head(s).lon * Head(s).rssi_max + SumLonWeighted(Tail(s))

\* faulty variant: the weighted sums are divided by the number of points
SumWeights_Count(s) == Len(s)

\* sum(p['rssi_max'] for p in strong_signals)
RECURSIVE SumWeights(_)
SumWeights(s) ==
  IF s = <<>> THEN 0 ELSE Head(s).rssi_max + SumWeights(Tail(s))

\* faulty variant: a single point is sent through the weighted average
SinglePointOrigin_Weighted(p) ==
  IF p.rssi_max = 0 THEN ZeroDivisionError
  ELSE [kind |-> "estimate",
        lat |-> <<p.lat * p.rssi_max, p.rssi_max>>,
        lon |-> <<p.lon * p.rssi_max, p.rssi_max>>,
        ns_span |-> 0, ew_span |-> 0, confidence |-> 1]

\* the "if len(signal_points) == 1" return
SinglePointOrigin(p) ==
  [kind |-> "estimate", lat |-> <<p.lat, 1>>, lon |-> <<p.lon, 1>>,
   ns_span |-> 0, ew_span |-> 0, confidence |-> 1]

\* faulty variant: equal spans take the east-west branch
UseNorthSouth_Strict(ns_span, ew_span) == ns_span > ew_span

\* "if ns_span >= ew_span"
UseNorthSouth(ns_span, ew_span) == ns_span >= ew_span

\* the part of estimate_signal_origin after strong_signals is taken
WeightedOrigin(strong) ==
  LET n == northmost(strong)
      s == southmost(strong)
      e == eastmost(strong)
      w == westmost(strong)
      ns_span == n.lat - s.lat
      ew_span == e.lon - w.lon
      total_weight == IF UseNorthSouth(ns_span, ew_span)
                      THEN n.rssi_max + s.rssi_max
                      ELSE e.rssi_max + w.rssi_max
      center_lat == IF UseNorthSouth(ns_span, ew_span)
                    THEN <<n.lat * n.rssi_max + s.lat * s.rssi_max, total_weight>>
                    ELSE <<SumLatWeighted(strong), SumWeights(strong)>>
      center_lon == IF UseNorthSouth(ns_span, ew_span)
                    THEN <<SumLonWeighted(strong), SumWeights(strong)>>
                    ELSE <<e.lon * e.rssi_max + w.lon * w.rssi_max, total_weight>>
  IN IF total_weight = 0 \/ SumWeights(strong) = 0
     THEN ZeroDivisionError
     ELSE [kind |-> "estimate", lat |-> center_lat, lon |-> center_lon,
           ns_span |-> ns_span, ew_span |-> ew_span,
           confidence |-> Len(strong)]

estimate_signal_origin(pts) ==
  IF pts = <<>> THEN NoneOrigin
  ELSE IF Len(pts) = 1 THEN SinglePointOrigin(pts[1])
  ELSE WeightedOrigin(strong_signals(pts))

(***************************************************************************)
(* Estimator harness: estimate_signal_origin applied to every list of at   *)
(* most MaxPoints points.  A point is what analyze_csv emits for a segment *)
(* of one row.                                                             *)
(***************************************************************************)
LowestThreshold == CHOOSE t \in Thresholds : \A u \in Thresholds : t <= u

EstPoint(la, lo, r) ==
  MakePoint(NewSegment(OkRow(r, la, lo, <<>>), LowestThreshold), <<r>>)

EstPointSet ==
  {EstPoint(BaseLat, BaseLon, -80),
   EstPoint(BaseLat + 40, BaseLon, -40),
   EstPoint(BaseLat + 20, BaseLon + 20, -60),
   EstPoint(BaseLat, BaseLon + 40, -40),
   EstPoint(BaseLat + 40, BaseLon + 40, -80),
   EstPoint(BaseLat, BaseLon, 0),
   EstPoint(BaseLat + 40, BaseLon + 20, 0)}

\* "if not signal_points: return None"
ReturnNone ==
  /\ epc = "call"
  /\ est_points = <<>>
  /\ epc' = "returned"
  /\ origin' = estimate_signal_origin(est_points)
  /\ est_strong' = <<>>
  /\ UNCHANGED est_points
  /\ UNCHANGED <<csv_vars, fn_vars, ua_vars, ext_vars>>

\* "if len(signal_points) == 1: return {...}"
ReturnSinglePoint ==
  /\ epc = "call"
  /\ Len(est_points) = 1
  /\ epc' = "returned"
  /\ origin' = estimate_signal_origin(est_points)
  /\ est_strong' = <<>>
  /\ UNCHANGED est_points
  /\ UNCHANGED <<csv_vars, fn_vars, ua_vars, ext_vars>>

\* two or more points: the weighted estimate is returned, or a division
\* raises ZeroDivisionError
ReturnWeighted ==
  /\ epc = "call"
  /\ Len(est_points) >= 2
  /\ est_strong' = strong_signals(est_points)
  /\ origin' = estimate_signal_origin(est_points)
  /\ epc' = IF origin'.kind = "ZeroDivisionError" THEN "raised" ELSE "returned"
  /\ UNCHANGED est_points
  /\ UNCHANGED <<csv_vars, fn_vars, ua_vars, ext_vars>>

OrgIdle ==
  /\ est_points = <<>>
  /\ epc = "idle"
  /\ est_strong = <<>>
  /\ origin = NoneOrigin

(***************************************************************************)
(* update_analysis, update_dataset_checkboxes, on_dataset_toggle and       *)
(* display_map_multi.  A file of file_list is a record: its path (the      *)
(* sequence of its components), whether it exists, and the list analyze_csv*)
(* returns for it (empty when the file cannot be read).  None is the       *)
(* empty sequence for lists and NoneOrigin for origins.  The map is        *)
(* modelled by the points and origin markers it was last given; its        *)
(* centring and the heat-map layer are not modelled.                       *)
(***************************************************************************)
dataset_colors ==
  <<"#FF0000", "#00FF00", "#0000FF", "#FF00FF", "#FFFF00", "#00FFFF", "#FFA500", "#800080">>

CombinedId == -1
CombinedColor == "#FF0000"
CombinedName == "Combined"

\* os.path.basename(file_path)
basename(path) == path[Len(path)]

\* faulty variant: the palette does not cycle, files past the last colour share it
PaletteColor_Clamp(i) ==
  dataset_colors[(IF i < Len(dataset_colors) THEN i ELSE Len(dataset_colors) - 1) + 1]

\* dataset_colors[idx % len(dataset_colors)]
PaletteColor(i) == dataset_colors[(i % Len(dataset_colors)) + 1]

\* d['dataset_id'] = id; d['dataset_color'] = color; d['dataset_name'] = name
Tagged(d, id, color, name) ==
  [dataset_id |-> id, dataset_color |-> color, dataset_name |-> name] @@ d

TaggedPoints(points, id, color, name) ==
  [k \in 1..Len(points) |-> Tagged(points[k], id, color, name)]

\* faulty variant: the points of a file go in front of the earlier files' points
ExtendPoints_Front(all_points, points) == points \o all_points

\* all_signal_points.extend(points)
ExtendPoints(all_points, points) == all_points \o points

\* "for dataset in datasets: all_points.extend(dataset['points'])"
RECURSIVE AllPoints(_)
AllPoints(datasets) ==
  IF datasets = <<>> THEN <<>>
  ELSE ExtendPoints(AllPoints(SubSeq(datasets, 1, Len(datasets) - 1)),
                    datasets[Len(datasets)].points)

BlankMap == [kind |-> "blank", points |-> <<>>, origins |-> <<>>]
EmptyMap == [kind |-> "empty", points |-> <<>>, origins |-> <<>>]

\* the entries of origins_json
IndividualOrigin(dataset) ==
  [lat |-> dataset.origin.lat, lon |-> dataset.origin.lon,
   confidence |-> dataset.origin.confidence,
   color |-> dataset.color, name |-> dataset.filename, type |-> "individual"]

CombinedOrigin(combined_origin) ==
  [lat |-> combined_origin.lat, lon |-> combined_origin.lon,
   confidence |-> combined_origin.confidence,
   color |-> CombinedColor, name |-> CombinedName, type |-> "combined"]

\* display_map_multi(file_datasets, combined_origin): what the map shows
display_map_multi(datasets, combined_origin) ==
  IF datasets = <<>> THEN EmptyMap
  ELSE [kind |-> "map",
        points |-> AllPoints(datasets),
        origins |->
          [k \in 1..Len(datasets) |-> IndividualOrigin(datasets[k])]
            \o (IF combined_origin.kind = "None" THEN <<>>
                ELSE <<CombinedOrigin(combined_origin)>>)]

\* the datasets whose checkbox is checked, in the order of file_datasets
RECURSIVE VisibleDatasets(_, _)
VisibleDatasets(datasets, checkboxes) ==
  IF datasets = <<>> THEN <<>>
  ELSE LET n == Len(datasets)
           rest == VisibleDatasets(SubSeq(datasets, 1, n - 1), checkboxes)
       IN IF checkboxes[n] THEN Append(rest, datasets[n]) ELSE rest

\* "if not self.current_csv_file": warning, return
NoFile ==
  /\ upc = "start"
  /\ file_list = <<>>
  /\ upc' = "warned"
  /\ UNCHANGED <<file_list, idx, file_datasets, all_signal_points,
                 self_file_datasets, current_signal_points, current_origin,
                 dataset_checkboxes, shown, parsed>>
  /\ UNCHANGED <<csv_vars, fn_vars, org_vars, ext_vars>>

\* "if not os.path.exists(file_path)": warning, return
FileNotFound ==
  /\ upc = "start"
  /\ \E k \in 1..Len(file_list) : ~file_list[k].exists
  /\ upc' = "warned"
  /\ UNCHANGED <<file_list, idx, file_datasets, all_signal_points,
                 self_file_datasets, current_signal_points, current_origin,
                 dataset_checkboxes, shown, parsed>>
  /\ UNCHANGED <<csv_vars, fn_vars, org_vars, ext_vars>>

\* float(self.rssi_edit.text()) raises ValueError: warning, return
InvalidThreshold ==
  /\ upc = "start"
  /\ file_list # <<>>
  /\ \A k \in 1..Len(file_list) : file_list[k].exists
  /\ upc' = "warned"
  /\ UNCHANGED <<file_list, idx, file_datasets, all_signal_points,
                 self_file_datasets, current_signal_points, current_origin,
                 dataset_checkboxes, shown, parsed>>
  /\ UNCHANGED <<csv_vars, fn_vars, org_vars, ext_vars>>

\* the checks pass: file_datasets = [], all_signal_points = [], the loop starts
BeginAnalysis ==
  /\ upc = "start"
  /\ file_list # <<>>
  /\ \A k \in 1..Len(file_list) : file_list[k].exists
  /\ upc' = "loop"
  /\ idx' = 0
  /\ file_datasets' = <<>>
  /\ all_signal_points' = <<>>
  /\ UNCHANGED <<file_list, self_file_datasets, current_signal_points,
                 current_origin, dataset_checkboxes, shown, parsed>>
  /\ UNCHANGED <<csv_vars, fn_vars, org_vars, ext_vars>>

\* faulty variant: a file that cannot be read ends the whole analysis
AnalyzeFile_AbortUnreadable ==
  /\ upc = "loop"
  /\ idx < Len(file_list)
  /\ parsed' = parsed + 1
  /\ LET file_path == file_list[idx + 1].path
         dataset_color == PaletteColor(idx)
         points == TaggedPoints(file_list[idx + 1].points, idx, dataset_color,
                                basename(file_path))
         file_origin == estimate_signal_origin(points)
     IN IF ~file_list[idx + 1].readable
        THEN /\ upc' = "warned"
             /\ UNCHANGED <<idx, file_datasets, all_signal_points>>
        ELSE IF points = <<>>
        THEN /\ idx' = idx + 1
             /\ UNCHANGED <<upc, file_datasets, all_signal_points>>
        ELSE IF file_origin.kind = "ZeroDivisionError"
        THEN /\ upc' = "raised"
             /\ UNCHANGED <<idx, file_datasets, all_signal_points>>
        ELSE /\ file_datasets' =
                  Append(file_datasets,
                         [points |-> points,
                          origin |-> Tagged(file_origin, idx, dataset_color,
                                            basename(file_path)),
                          filename |-> basename(file_path),
                          color |-> dataset_color])
             /\ all_signal_points' = ExtendPoints(all_signal_points, points)
             /\ idx' = idx + 1
             /\ UNCHANGED upc
  /\ UNCHANGED <<file_list, self_file_datasets, current_signal_points,
                 current_origin, dataset_checkboxes, shown>>
  /\ UNCHANGED <<csv_vars, fn_vars, org_vars, ext_vars>>

\* one iteration of "for idx, file_path in enumerate(file_list)"; idx counts
\* from 0 as in Python
AnalyzeFile ==
  /\ upc = "loop"
  /\ idx < Len(file_list)
  /\ parsed' = parsed + 1
  /\ LET file_path == file_list[idx + 1].path
         dataset_color == PaletteColor(idx)
         points == TaggedPoints(file_list[idx + 1].points, idx, dataset_color,
                                basename(file_path))
         file_origin == estimate_signal_origin(points)
     IN IF points = <<>>
        THEN /\ idx' = idx + 1
             /\ UNCHANGED <<upc, file_datasets, all_signal_points>>
        ELSE IF file_origin.kind = "ZeroDivisionError"
        THEN /\ upc' = "raised"
             /\ UNCHANGED <<idx, file_datasets, all_signal_points>>
        ELSE /\ file_datasets' =
                  Append(file_datasets,
                         [points |-> points,
                          origin |-> Tagged(file_origin, idx, dataset_color,
                                            basename(file_path)),
                          filename |-> basename(file_path),
                          color |-> dataset_color])
             /\ all_signal_points' = ExtendPoints(all_signal_points, points)
             /\ idx' = idx + 1
             /\ UNCHANGED upc
  /\ UNCHANGED <<file_list, self_file_datasets, current_signal_points,
                 current_origin, dataset_checkboxes, shown>>
  /\ UNCHANGED <<csv_vars, fn_vars, org_vars, ext_vars>>

\* "if not all_signal_points": information box, empty map, state reset
NoData ==
  /\ upc = "loop"
  /\ idx = Len(file_list)
  /\ all_signal_points = <<>>
  /\ shown' = EmptyMap
  /\ current_signal_points' = <<>>
  /\ current_origin' = NoneOrigin
  /\ self_file_datasets' = <<>>
  /\ upc' = "done"
  /\ UNCHANGED <<file_list, idx, file_datasets, all_signal_points,
                 dataset_checkboxes, parsed>>
  /\ UNCHANGED <<csv_vars, fn_vars, org_vars, ext_vars>>

\* lines 209-227: the results are stored, update_dataset_checkboxes creates
\* one checked checkbox per dataset and the checked combined-origin checkbox,
\* the combined origin is estimated and the map is drawn
ShowAnalysis ==
  /\ upc = "loop"
  /\ idx = Len(file_list)
  /\ all_signal_points # <<>>
  /\ current_signal_points' = all_signal_points
  /\ self_file_datasets' = file_datasets
  /\ dataset_checkboxes' = [k \in 1..(Len(file_datasets) + 1) |-> TRUE]
  /\ LET combined_origin == estimate_signal_origin(all_signal_points)
     IN IF combined_origin.kind = "ZeroDivisionError"
        THEN /\ upc' = "raised"
             /\ UNCHANGED <<current_origin, shown>>
        ELSE /\ current_origin' =
                  Tagged(combined_origin, CombinedId, CombinedColor, CombinedName)
             /\ shown' = display_map_multi(file_datasets, current_origin')
             /\ upc' = "done"
  /\ UNCHANGED <<file_list, idx, file_datasets, all_signal_points, parsed>>
  /\ UNCHANGED <<csv_vars, fn_vars, org_vars, ext_vars>>

\* the user clicks checkbox i (the last one is "Combined Origin"); its state
\* flips and stateChanged runs on_dataset_toggle
on_dataset_toggle(i) ==
  /\ upc = "done"
  /\ i \in 1..Len(dataset_checkboxes)
  /\ dataset_checkboxes' = [dataset_checkboxes EXCEPT ![i] = ~dataset_checkboxes[i]]
  /\ LET visible_datasets == VisibleDatasets(self_file_datasets, dataset_checkboxes')
         show_combined ==
           IF Len(dataset_checkboxes') > Len(self_file_datasets)
           THEN dataset_checkboxes'[Len(dataset_checkboxes')]
           ELSE TRUE
         all_visible_points == AllPoints(visible_datasets)
         combined_origin ==
           IF show_combined THEN estimate_signal_origin(all_visible_points)
           ELSE NoneOrigin
     IN IF visible_datasets = <<>>
        THEN UNCHANGED <<upc, shown>>
        ELSE IF combined_origin.kind = "ZeroDivisionError"
        THEN /\ upc' = "raised"
             /\ UNCHANGED shown
        ELSE /\ shown' =
                  display_map_multi(
                    visible_datasets,
                    IF combined_origin.kind = "None" THEN NoneOrigin
                    ELSE Tagged(combined_origin, CombinedId, CombinedColor,
                                CombinedName))
             /\ UNCHANGED upc
  /\ UNCHANGED <<file_list, idx, file_datasets, all_signal_points,
                 self_file_datasets, current_signal_points, current_origin, parsed>>
  /\ UNCHANGED <<csv_vars, fn_vars, org_vars, ext_vars>>

(***************************************************************************)
(* Inputs of update_analysis.                                              *)
(***************************************************************************)
MaxFiles == 3
MaxWideFiles == 9

BaseNames == <<"a.csv", "b.csv">>

FilePath(k) == <<"logs", BaseNames[(k % Len(BaseNames)) + 1]>>

MissingFile == [exists |-> FALSE, readable |-> FALSE, points |-> <<>>]

\* the file exists but open() or the reader raises: analyze_csv shows its
\* warning and returns []
UnreadableFile == [exists |-> TRUE, readable |-> FALSE, points |-> <<>>]

ReadableFile(points) == [exists |-> TRUE, readable |-> TRUE, points |-> points]

FileContents ==
  {<<>>,
   <<EstPoint(BaseLat, BaseLon, -80)>>,
   <<EstPoint(BaseLat + 40, BaseLon, -40)>>,
   <<EstPoint(BaseLat, BaseLon + 40, -40)>>,
   <<EstPoint(BaseLat + 20, BaseLon + 20, -40)>>,
   <<EstPoint(BaseLat, BaseLon, 0)>>,
   <<EstPoint(BaseLat, BaseLon, -80), EstPoint(BaseLat + 40, BaseLon, -40)>>,
   <<EstPoint(BaseLat, BaseLon, 0), EstPoint(BaseLat + 40, BaseLon + 20, 0)>>}

WideFileContents == {<<>>, <<EstPoint(BaseLat, BaseLon, -80)>>}

\* the lists of at most n files drawn from kinds
FileLists(n, kinds) ==
  UNION {{[k \in 1..m |-> [path |-> FilePath(k),
                           exists |-> f[k].exists,
                           readable |-> f[k].readable,
                           points |-> f[k].points]] : f \in [1..m -> kinds]}
         : m \in 0..n}

(***************************************************************************)
(* calculate_color called on its own: the argument rssi_above_threshold is *)
(* a whole number of dB, NoColor stands for "not yet returned".            *)
(***************************************************************************)
MaxAbove == 30

NoColor == "none"

ColorArgs == (0 - MaxAbove)..MaxAbove

CallCalculateColor ==
  /\ color_ret = NoColor
  /\ color_ret' = calculate_color(color_arg)
  /\ UNCHANGED color_arg
  /\ UNCHANGED <<base_vars, log_vars, nmea_vars, mk_vars, ses_vars>>

ColIdle ==
  /\ color_arg = 0
  /\ color_ret = NoColor

(***************************************************************************)
(* main.gui_log: gps_reader appends under gui_log_lock, get_logs drains    *)
(* under the same lock.  Messages are numbered in the order gps_reader     *)
(* logs them.  The threads are "gps" and the callers of get_logs.          *)
(***************************************************************************)
MaxAppends == 3
MaxCalls == 3

LogCap == 500

Callers == {"c1", "c2"}

NoHolder == "free"

\* the mutual exclusion of "with gui_log_lock" left out
acquire_Unguarded(t) == gui_log_lock' = t

\* with gui_log_lock: (entering the block)
acquire(t) ==
  /\ gui_log_lock = NoHolder
  /\ gui_log_lock' = t

\* leaving the with block
release == gui_log_lock' = NoHolder

\* lst[-n:]
LastN(lst, n) ==
  IF Len(lst) <= n THEN lst ELSE SubSeq(lst, Len(lst) - n + 1, Len(lst))

GpsEnter ==
  /\ gps_pc = "idle"
  /\ appended < MaxAppends
  /\ acquire("gps")
  /\ gps_pc' = "append"
  /\ UNCHANGED <<gui_log, appended, get_pc, msgs, returned>>
  /\ UNCHANGED <<base_vars, col_vars, nmea_vars, mk_vars, ses_vars>>

\* gui_log.append(text)
GpsAppend ==
  /\ gps_pc = "append"
  /\ appended' = appended + 1
  /\ gui_log' = Append(gui_log, appended + 1)
  /\ gps_pc' = "trim"
  /\ UNCHANGED <<gui_log_lock, get_pc, msgs, returned>>
  /\ UNCHANGED <<base_vars, col_vars, nmea_vars, mk_vars, ses_vars>>

\* if len(gui_log) > 500: gui_log[:] = gui_log[-500:]
GpsTrim ==
  /\ gps_pc = "trim"
  /\ gui_log' = IF Len(gui_log) > LogCap THEN LastN(gui_log, LogCap) ELSE gui_log
  /\ gps_pc' = "exit"
  /\ UNCHANGED <<gui_log_lock, appended, get_pc, msgs, returned>>
  /\ UNCHANGED <<base_vars, col_vars, nmea_vars, mk_vars, ses_vars>>

GpsExit ==
  /\ gps_pc = "exit"
  /\ release
  /\ gps_pc' = "idle"
  /\ UNCHANGED <<gui_log, appended, get_pc, msgs, returned>>
  /\ UNCHANGED <<base_vars, col_vars, nmea_vars, mk_vars, ses_vars>>

GetEnter(c) ==
  /\ get_pc[c] = "idle"
  /\ Len(returned) < MaxCalls
  /\ acquire(c)
  /\ get_pc' = [get_pc EXCEPT ![c] = "test"]
  /\ UNCHANGED <<gui_log, gps_pc, appended, msgs, returned>>
  /\ UNCHANGED <<base_vars, col_vars, nmea_vars, mk_vars, ses_vars>>

\* if not gui_log: return []
GetTest(c) ==
  /\ get_pc[c] = "test"
  /\ IF gui_log = <<>>
       THEN /\ msgs' = [msgs EXCEPT ![c] = <<>>]
            /\ get_pc' = [get_pc EXCEPT ![c] = "return"]
       ELSE /\ get_pc' = [get_pc EXCEPT ![c] = "copy"]
            /\ UNCHANGED msgs
  /\ UNCHANGED <<gui_log, gui_log_lock, gps_pc, appended, returned>>
  /\ UNCHANGED <<base_vars, col_vars, nmea_vars, mk_vars, ses_vars>>

\* msgs = gui_log[:]
GetCopy(c) ==
  /\ get_pc[c] = "copy"
  /\ msgs' = [msgs EXCEPT ![c] = gui_log]
  /\ get_pc' = [get_pc EXCEPT ![c] = "clear"]
  /\ UNCHANGED <<gui_log, gui_log_lock, gps_pc, appended, returned>>
  /\ UNCHANGED <<base_vars, col_vars, nmea_vars, mk_vars, ses_vars>>

\* gui_log.clear()
GetClear(c) ==
  /\ get_pc[c] = "clear"
  /\ gui_log' = <<>>
  /\ get_pc' = [get_pc EXCEPT ![c] = "return"]
  /\ UNCHANGED <<gui_log_lock, gps_pc, appended, msgs, returned>>
  /\ UNCHANGED <<base_vars, col_vars, nmea_vars, mk_vars, ses_vars>>

\* return msgs (and the with block is left)
GetReturn(c) ==
  /\ get_pc[c] = "return"
  /\ returned' = Append(returned, msgs[c])
  /\ msgs' = [msgs EXCEPT ![c] = <<>>]
  /\ release
  /\ get_pc' = [get_pc EXCEPT ![c] = "idle"]
  /\ UNCHANGED <<gui_log, gps_pc, appended>>
  /\ UNCHANGED <<base_vars, col_vars, nmea_vars, mk_vars, ses_vars>>

LogIdle ==
  /\ gui_log = <<>>
  /\ gui_log_lock = NoHolder
  /\ gps_pc = "idle"
  /\ appended = 0
  /\ get_pc = [c \in Callers |-> "idle"]
  /\ msgs = [c \in Callers |-> <<>>]
  /\ returned = <<>>


(***************************************************************************)
(* main._nmea_to_decimal(coord, hemi).  A string is the sequence of its    *)
(* characters.  float() is modelled on the characters the harness draws    *)
(* from: digits and at most one '.', with at least one digit, parse; any   *)
(* other text raises ValueError.  A float is the exact fraction num/den;   *)
(* None is NoneDec.                                                        *)
(***************************************************************************)
MaxCoordLen == 8

MinutesPerDegree == 60

DigitChars == <<"0", "1", "2", "3", "4", "5", "6", "7", "8", "9">>

IsDigit(ch) == \E d \in 1..10 : DigitChars[d] = ch

DigitValue(ch) == (CHOOSE d \in 1..10 : DigitChars[d] = ch) - 1

CoordChars == {"0", "5", ".", "x"}

Hemispheres == {"N", "S", "E", "W"}

NoneDec == [kind |-> "None"]

NotCalled == [kind |-> "pending"]

Float(n, d) == [kind |-> "float", num |-> n, den |-> d]

\* str.find(ch): the 0-based index of the first occurrence, -1 when absent
find(s, ch) ==
  IF \E i \in 1..Len(s) : s[i] = ch
    THEN (CHOOSE i \in 1..Len(s) : s[i] = ch /\ \A j \in 1..(i - 1) : s[j] # ch) - 1
    ELSE -1

\* the slice bound n of a string of length len, as Python clamps it
SliceBound(n, len) ==
  IF n >= 0 THEN (IF n > len THEN len ELSE n)
  ELSE (IF len + n < 0 THEN 0 ELSE len + n)

\* s[:n]
PyPrefix(s, n) == SubSeq(s, 1, SliceBound(n, Len(s)))

\* s[n:]
PySuffix(s, n) == SubSeq(s, SliceBound(n, Len(s)) + 1, Len(s))

RECURSIVE DigitsValue(_)
DigitsValue(s) ==
  IF s = <<>> THEN 0
  ELSE DigitsValue(SubSeq(s, 1, Len(s) - 1)) * 10 + DigitValue(s[Len(s)])

RECURSIVE PowerOfTen(_)
PowerOfTen(k) == IF k = 0 THEN 1 ELSE 10 * PowerOfTen(k - 1)

WithoutDot(s) == SelectSeq(s, LAMBDA ch : ch # ".")

ParsesAsFloat(s) ==
  /\ \A i \in 1..Len(s) : IsDigit(s[i]) \/ s[i] = "."
  /\ Cardinality({i \in 1..Len(s) : s[i] = "."}) <= 1
  /\ \E i \in 1..Len(s) : IsDigit(s[i])

\* float(s) of a string that parses
ParseFloat(s) ==
  Float(DigitsValue(WithoutDot(s)),
        IF find(s, ".") = -1 THEN 1 ELSE PowerOfTen(Len(s) - find(s, ".") - 1))

\* the degrees taken as one digit longer
degrees_len_OneLonger(dot) == dot - 1

\* degrees_len = dot - 2
degrees_len(dot) == dot - 2

\* if hemi in ('S', 'W')
Negated(h) == h \in {"S", "W"}

\* dec = degrees + minutes / 60.0, negated for the southern and western
\* hemispheres
Decimal(degrees, minutes, h) ==
  LET n == degrees.num * MinutesPerDegree * minutes.den + minutes.num * degrees.den
      d == degrees.den * MinutesPerDegree * minutes.den
  IN Float(IF Negated(h) THEN 0 - n ELSE n, d)

nmea_to_decimal(c, h) ==
  IF c = <<>> THEN NoneDec
  ELSE IF find(c, ".") = -1 THEN NoneDec
  ELSE LET dl == degrees_len(find(c, "."))
           ds == PyPrefix(c, dl)
           ms == PySuffix(c, dl)
       IN IF ParsesAsFloat(ds) /\ ParsesAsFloat(ms)
            THEN Decimal(ParseFloat(ds), ParseFloat(ms), h)
            ELSE NoneDec

CallNmeaToDecimal ==
  /\ dec = NotCalled
  /\ dec' = nmea_to_decimal(coord, hemi)
  /\ UNCHANGED <<coord, hemi>>
  /\ UNCHANGED <<base_vars, col_vars, log_vars, mk_vars, ses_vars>>

NmeaIdle ==
  /\ coord = <<>>
  /\ hemi = "N"
  /\ dec = NotCalled

(***************************************************************************)
(* gui_pyqt.MapWindow: the triggered markers.  update_marker runs on the   *)
(* one-second timer with what get_pos and get_status return at that        *)
(* moment.  A position is a distance in metres along a meridian, so that   *)
(* calculate_distance is the absolute difference; None is NoFix for        *)
(* positions and NoRssi for rssi_dbm.                                      *)
(***************************************************************************)
min_distance == 50

NoFix == -1

NoRssi == 1

Positions == {0, 30, 60, 120}

RssiReadings == {-80, -60, -40}

TriggerValues == {-70, -50}

calculate_distance(a, b) == Abs(a - b)

\* the loop over self.triggered_markers of add_triggered_marker
TooClose(markers, pos) ==
  \E k \in 1..Len(markers) : calculate_distance(pos, markers[k]) < min_distance

add_triggered_marker(markers, pos) ==
  IF pos = NoFix THEN markers
  ELSE IF TooClose(markers, pos) THEN markers
  ELSE Append(markers, pos)

NoPoll ==
  [evaluated |-> FALSE, above |-> FALSE, attempted |-> FALSE, added |-> FALSE,
   prev |-> "none", run_added |-> 0, run_skipped |-> FALSE]

\* history: poll is the record of this call, built from the one before it.
\* evaluated: the call had a position and an rssi_dbm and compared it with
\* the trigger; above: rssi_dbm was at or above the trigger; attempted:
\* add_triggered_marker was called; added: it appended a marker; prev: what
\* the latest earlier call that evaluated the trigger saw; run_added and
\* run_skipped: the markers added, and whether an attempt was skipped, over
\* the consecutive calls up to this one with rssi_dbm at or above the trigger
PollRecord(pos, rssi, new_markers, attempted) ==
  LET evaluated == rssi # NoRssi /\ pos # NoFix
      above == rssi # NoRssi /\ rssi >= range_trigger_value
      added == Len(new_markers) > Len(triggered_markers)
  IN [evaluated |-> evaluated,
      above |-> above,
      attempted |-> attempted,
      added |-> added,
      prev |-> IF poll.evaluated
                 THEN (IF poll.above THEN "above" ELSE "below")
                 ELSE poll.prev,
      run_added |-> (IF above /\ poll.above THEN poll.run_added ELSE 0)
                      + (IF added THEN 1 ELSE 0),
      run_skipped |-> (above /\ poll.above /\ poll.run_skipped)
                        \/ (attempted /\ ~added)]

\* last_triggered_state set only when the marker was really added
update_marker_RetryAfterSkip(pos, rssi) ==
  /\ IF rssi # NoRssi /\ pos # NoFix
       THEN IF rssi >= range_trigger_value
              THEN IF ~last_triggered_state
                     THEN /\ triggered_markers' = add_triggered_marker(triggered_markers, pos)
                          /\ last_triggered_state' = (triggered_markers' # triggered_markers)
                          /\ poll' = PollRecord(pos, rssi, triggered_markers', TRUE)
                     ELSE /\ UNCHANGED <<triggered_markers, last_triggered_state>>
                          /\ poll' = PollRecord(pos, rssi, triggered_markers, FALSE)
              ELSE /\ last_triggered_state' = FALSE
                   /\ UNCHANGED triggered_markers
                   /\ poll' = PollRecord(pos, rssi, triggered_markers, FALSE)
       ELSE /\ UNCHANGED <<triggered_markers, last_triggered_state>>
            /\ poll' = PollRecord(pos, rssi, triggered_markers, FALSE)
  /\ UNCHANGED range_trigger_value
  /\ UNCHANGED <<base_vars, col_vars, log_vars, nmea_vars, ses_vars>>

update_marker(pos, rssi) ==
  /\ IF rssi # NoRssi /\ pos # NoFix
       THEN IF rssi >= range_trigger_value
              THEN IF ~last_triggered_state
                     THEN /\ triggered_markers' = add_triggered_marker(triggered_markers, pos)
                          /\ last_triggered_state' = TRUE
                          /\ poll' = PollRecord(pos, rssi, triggered_markers', TRUE)
                     ELSE /\ UNCHANGED <<triggered_markers, last_triggered_state>>
                          /\ poll' = PollRecord(pos, rssi, triggered_markers, FALSE)
              ELSE /\ last_triggered_state' = FALSE
                   /\ UNCHANGED triggered_markers
                   /\ poll' = PollRecord(pos, rssi, triggered_markers, FALSE)
       ELSE /\ UNCHANGED <<triggered_markers, last_triggered_state>>
            /\ poll' = PollRecord(pos, rssi, triggered_markers, FALSE)
  /\ UNCHANGED range_trigger_value
  /\ UNCHANGED <<base_vars, col_vars, log_vars, nmea_vars, ses_vars>>

\* the dialog is accepted with value (a cancelled dialog changes nothing)
show_range_dialog(value) ==
  /\ range_trigger_value' = value
  /\ UNCHANGED <<last_triggered_state, triggered_markers, poll>>
  /\ UNCHANGED <<base_vars, col_vars, log_vars, nmea_vars, ses_vars>>

\* the question box is answered Yes
clear_all_markers ==
  /\ triggered_markers # <<>>
  /\ triggered_markers' = <<>>
  /\ UNCHANGED <<last_triggered_state, range_trigger_value, poll>>
  /\ UNCHANGED <<base_vars, col_vars, log_vars, nmea_vars, ses_vars>>

MkIdle ==
  /\ last_triggered_state = FALSE
  /\ triggered_markers = <<>>
  /\ range_trigger_value = -70
  /\ poll = NoPoll

(***************************************************************************)
(* gui_pyqt.MapWindow: the CSV logging session.  The GUI thread runs       *)
(* start_new_session, stop_session and toggle_session_pause one at a time; *)
(* the sampler thread of main.start_rssi_sampler calls log_rssi_sample     *)
(* through the registered callback.  No lock is taken, so every read and   *)
(* write of an attribute is a step of its own.  A file is its index in     *)
(* files; a csv.writer is the file it writes to.                           *)
(***************************************************************************)
MaxSessions == 2

NoSession == 0

NoWrite == [file |-> NoSession, open |-> FALSE, paused |-> FALSE]

\* file.close(): closing a closed file is allowed
CloseFile(fs, f) == [fs EXCEPT ![f] = "closed"]

\* start_new_session: the dialog, then "if self.csv_file: self.csv_file.close()"
StartClosePrevious ==
  /\ gui_pc = "idle"
  /\ Len(files) < MaxSessions
  /\ files' = IF csv_file # NoSession THEN CloseFile(files, csv_file) ELSE files
  /\ gui_pc' = "start_open"
  /\ UNCHANGED <<csv_file, csv_writer, session_paused, smp_pc, last_write>>
  /\ UNCHANGED <<base_vars, col_vars, log_vars, nmea_vars, mk_vars>>

\* self.csv_file = open(file_path, 'w', ...), or open raises and the
\* critical box is shown
StartOpen ==
  /\ gui_pc = "start_open"
  /\ \E opened \in BOOLEAN :
       IF opened
         THEN /\ files' = Append(files, "open")
              /\ csv_file' = Len(files) + 1
              /\ gui_pc' = "start_writer"
         ELSE /\ gui_pc' = "idle"
              /\ UNCHANGED <<files, csv_file>>
  /\ UNCHANGED <<csv_writer, session_paused, smp_pc, last_write>>
  /\ UNCHANGED <<base_vars, col_vars, log_vars, nmea_vars, mk_vars>>

\* self.csv_writer = csv.writer(self.csv_file) and the header row
StartWriter ==
  /\ gui_pc = "start_writer"
  /\ csv_writer' = csv_file
  /\ gui_pc' = "start_unpause"
  /\ UNCHANGED <<csv_file, session_paused, files, smp_pc, last_write>>
  /\ UNCHANGED <<base_vars, col_vars, log_vars, nmea_vars, mk_vars>>

\* self.session_paused = False
StartUnpause ==
  /\ gui_pc = "start_unpause"
  /\ session_paused' = FALSE
  /\ gui_pc' = "idle"
  /\ UNCHANGED <<csv_file, csv_writer, files, smp_pc, last_write>>
  /\ UNCHANGED <<base_vars, col_vars, log_vars, nmea_vars, mk_vars>>

\* stop_session: "if not self.csv_file: return", then self.csv_file.close()
StopClose ==
  /\ gui_pc = "idle"
  /\ csv_file # NoSession
  /\ files' = CloseFile(files, csv_file)
  /\ gui_pc' = "stop_file"
  /\ UNCHANGED <<csv_file, csv_writer, session_paused, smp_pc, last_write>>
  /\ UNCHANGED <<base_vars, col_vars, log_vars, nmea_vars, mk_vars>>

\* self.csv_file = None
StopClearFile ==
  /\ gui_pc = "stop_file"
  /\ csv_file' = NoSession
  /\ gui_pc' = "stop_writer"
  /\ UNCHANGED <<csv_writer, session_paused, files, smp_pc, last_write>>
  /\ UNCHANGED <<base_vars, col_vars, log_vars, nmea_vars, mk_vars>>

\* self.csv_writer = None
StopClearWriter ==
  /\ gui_pc = "stop_writer"
  /\ csv_writer' = NoSession
  /\ gui_pc' = "stop_unpause"
  /\ UNCHANGED <<csv_file, session_paused, files, smp_pc, last_write>>
  /\ UNCHANGED <<base_vars, col_vars, log_vars, nmea_vars, mk_vars>>

\* self.session_paused = False
StopUnpause ==
  /\ gui_pc = "stop_unpause"
  /\ session_paused' = FALSE
  /\ gui_pc' = "idle"
  /\ UNCHANGED <<csv_file, csv_writer, files, smp_pc, last_write>>
  /\ UNCHANGED <<base_vars, col_vars, log_vars, nmea_vars, mk_vars>>

\* the pause menu entry is enabled while a session has been started
toggle_session_pause ==
  /\ gui_pc = "idle"
  /\ csv_file # NoSession
  /\ session_paused' = ~session_paused
  /\ UNCHANGED <<csv_file, csv_writer, files, gui_pc, smp_pc, last_write>>
  /\ UNCHANGED <<base_vars, col_vars, log_vars, nmea_vars, mk_vars>>

\* log_rssi_sample: if not self.csv_writer or self.session_paused: return
SampleCheck ==
  /\ smp_pc = "idle"
  /\ smp_pc' = IF csv_writer = NoSession \/ session_paused THEN "idle" ELSE "write"
  /\ UNCHANGED <<csv_file, csv_writer, session_paused, files, gui_pc, last_write>>
  /\ UNCHANGED <<base_vars, col_vars, log_vars, nmea_vars, mk_vars>>

\* self.csv_writer.writerow([...]): the attribute is read again; on None
\* the AttributeError is caught and printed, on a closed file the
\* ValueError is
SampleWrite ==
  /\ smp_pc = "write"
  /\ last_write' = IF csv_writer = NoSession THEN last_write
                   ELSE [file |-> csv_writer,
                         open |-> files[csv_writer] = "open",
                         paused |-> session_paused]
  /\ smp_pc' = "idle"
  /\ UNCHANGED <<csv_file, csv_writer, session_paused, files, gui_pc>>
  /\ UNCHANGED <<base_vars, col_vars, log_vars, nmea_vars, mk_vars>>

SesIdle ==
  /\ csv_file = NoSession
  /\ csv_writer = NoSession
  /\ session_paused = FALSE
  /\ files = <<>>
  /\ gui_pc = "idle"
  /\ smp_pc = "idle"
  /\ last_write = NoWrite

ExtIdle ==
  /\ ColIdle
  /\ LogIdle
  /\ NmeaIdle
  /\ MkIdle
  /\ SesIdle

(***************************************************************************)
(* Specifications.                                                         *)
(***************************************************************************)
CsvIdle ==
  /\ min_rssi = 0
  /\ pc = "idle"
  /\ nrows = 0
  /\ row = NoRow
  /\ current_segment = NoSegment
  /\ signal_segments = <<>>
  /\ seg_idx = 0
  /\ signal_points = <<>>
  /\ result = <<>>
  /\ warned = FALSE
  /\ hist = <<>>

UaIdle ==
  /\ file_list = <<>>
  /\ upc = "idle"
  /\ idx = 0
  /\ file_datasets = <<>>
  /\ all_signal_points = <<>>
  /\ self_file_datasets = <<>>
  /\ current_signal_points = <<>>
  /\ current_origin = NoneOrigin
  /\ dataset_checkboxes = <<>>
  /\ shown = BlankMap
  /\ parsed = 0

FnIdle ==
  /\ values = <<>>
  /\ threshold = 0
  /\ fpc = "idle"
  /\ cleaned = <<>>
  /\ cleaned2 = <<>>
  /\ crossings = 0

\* analyze_csv(file_path, min_rssi) is entered
Init ==
  /\ min_rssi \in Thresholds
  /\ pc = "open"
  /\ nrows = 0
  /\ row = NoRow
  /\ current_segment = NoSegment
  /\ signal_segments = <<>>
  /\ seg_idx = 0
  /\ signal_points = <<>>
  /\ result = <<>>
  /\ warned = FALSE
  /\ hist = <<>>
  /\ FnIdle
  /\ OrgIdle
  /\ UaIdle
  /\ ExtIdle

Next ==
  \/ OpenFile
  \/ OpenFails
  \/ RejectRow
  \/ StartSegment
  \/ ExtendSegment
  \/ SplitSegment
  \/ SkipMalformedRow
  \/ FailOnRow
  \/ EndOfInput
  \/ FilterSegment
  \/ ReturnPoints

Spec == Init /\ [][Next]_vars

FnInit ==
  /\ values \in SeqsUpTo(FnVals, MaxLen)
  /\ threshold \in FnThresholds
  /\ fpc = "start"
  /\ cleaned = <<>>
  /\ cleaned2 = <<>>
  /\ crossings = 0
  /\ CsvIdle
  /\ OrgIdle
  /\ UaIdle
  /\ ExtIdle

FnNext ==
  \/ CallRemoveOutliers
  \/ CallRemoveOutliersAgain
  \/ CallCountOscillations

FnSpec == FnInit /\ [][FnNext]_vars

\* estimate_signal_origin(signal_points) is entered
OrgInit ==
  /\ est_points \in SeqsUpTo(EstPointSet, MaxPoints)
  /\ epc = "call"
  /\ est_strong = <<>>
  /\ origin = NoneOrigin
  /\ CsvIdle
  /\ FnIdle
  /\ UaIdle
  /\ ExtIdle

OrgNext ==
  \/ ReturnNone
  \/ ReturnSinglePoint
  \/ ReturnWeighted

OrgSpec == OrgInit /\ [][OrgNext]_vars

UaStart ==
  /\ upc = "start"
  /\ idx = 0
  /\ file_datasets = <<>>
  /\ all_signal_points = <<>>
  /\ self_file_datasets = <<>>
  /\ current_signal_points = <<>>
  /\ current_origin = NoneOrigin
  /\ dataset_checkboxes = <<>>
  /\ shown = BlankMap
  /\ parsed = 0
  /\ CsvIdle
  /\ FnIdle
  /\ OrgIdle
  /\ ExtIdle

\* update_analysis is entered on a newly constructed window
UaInit ==
  /\ file_list \in FileLists(MaxFiles,
                             {MissingFile, UnreadableFile}
                               \cup {ReadableFile(c) : c \in FileContents})
  /\ UaStart

UaNext ==
  \/ NoFile
  \/ FileNotFound
  \/ InvalidThreshold
  \/ BeginAnalysis
  \/ AnalyzeFile
  \/ NoData
  \/ ShowAnalysis
  \/ \E i \in 1..(MaxFiles + 1) : on_dataset_toggle(i)

UaSpec == UaInit /\ [][UaNext]_vars

\* update_analysis on long lists of existing files (and on one missing file),
\* up to the first drawing of the map
UaWideInit ==
  /\ file_list \in FileLists(MaxWideFiles, {ReadableFile(c) : c \in WideFileContents})
                     \cup FileLists(1, {MissingFile})
  /\ UaStart

UaWideNext ==
  \/ NoFile
  \/ FileNotFound
  \/ InvalidThreshold
  \/ BeginAnalysis
  \/ AnalyzeFile
  \/ NoData
  \/ ShowAnalysis

UaWideSpec == UaWideInit /\ [][UaWideNext]_vars

BaseIdle ==
  /\ CsvIdle
  /\ FnIdle
  /\ OrgIdle
  /\ UaIdle

\* calculate_color is called
ColorInit ==
  /\ color_arg \in ColorArgs
  /\ color_ret = NoColor
  /\ BaseIdle
  /\ LogIdle
  /\ NmeaIdle
  /\ MkIdle
  /\ SesIdle

ColorNext == CallCalculateColor

ColorSpec == ColorInit /\ [][ColorNext]_vars

\* gps_reader logging next to the callers of get_logs
LogInit ==
  /\ LogIdle
  /\ BaseIdle
  /\ ColIdle
  /\ NmeaIdle
  /\ MkIdle
  /\ SesIdle

LogNext ==
  \/ GpsEnter
  \/ GpsAppend
  \/ GpsTrim
  \/ GpsExit
  \/ \E c \in Callers : GetEnter(c)
  \/ \E c \in Callers : GetTest(c)
  \/ \E c \in Callers : GetCopy(c)
  \/ \E c \in Callers : GetClear(c)
  \/ \E c \in Callers : GetReturn(c)

LogSpec == LogInit /\ [][LogNext]_vars

\* _nmea_to_decimal is called
NmeaInit ==
  /\ coord \in SeqsUpTo(CoordChars, MaxCoordLen)
  /\ hemi \in Hemispheres
  /\ dec = NotCalled
  /\ BaseIdle
  /\ ColIdle
  /\ LogIdle
  /\ MkIdle
  /\ SesIdle

NmeaNext == CallNmeaToDecimal

NmeaSpec == NmeaInit /\ [][NmeaNext]_vars

\* the map window after construction, polled by its timer
MkInit ==
  /\ last_triggered_state = FALSE
  /\ triggered_markers = <<>>
  /\ range_trigger_value \in TriggerValues
  /\ poll = NoPoll
  /\ BaseIdle
  /\ ColIdle
  /\ LogIdle
  /\ NmeaIdle
  /\ SesIdle

MkNext ==
  \/ \E pos \in Positions \cup {NoFix}, rssi \in RssiReadings \cup {NoRssi} :
       update_marker(pos, rssi)
  \/ \E value \in TriggerValues : show_range_dialog(value)
  \/ clear_all_markers

MkSpec == MkInit /\ [][MkNext]_vars

\* the map window after construction, with the sampler thread running
SesInit ==
  /\ SesIdle
  /\ BaseIdle
  /\ ColIdle
  /\ LogIdle
  /\ NmeaIdle
  /\ MkIdle

SesNext ==
  \/ StartClosePrevious
  \/ StartOpen
  \/ StartWriter
  \/ StartUnpause
  \/ StopClose
  \/ StopClearFile
  \/ StopClearWriter
  \/ StopUnpause
  \/ toggle_session_pause
  \/ SampleCheck
  \/ SampleWrite

SesSpec == SesInit /\ [][SesNext]_vars

(***************************************************************************)
(* Helpers of the properties.                                              *)
(***************************************************************************)
Range(s) == {s[i] : i \in 1..Len(s)}

\* the RSSI values of all segments, concatenated in segment order
RECURSIVE FlatValues(_)
FlatValues(segs) ==
  IF segs = <<>> THEN <<>> ELSE Head(segs).rssi_values \o FlatValues(Tail(segs))

RECURSIVE SumCounts(_)
SumCounts(segs) == IF segs = <<>> THEN 0 ELSE Head(segs).count + SumCounts(Tail(segs))

\* RSSI of the valid rows of the history, in input order; k = 0: all of them,
\* k > 0: those stored in segment k
RECURSIVE HistRssi(_, _)
HistRssi(h, k) ==
  IF h = <<>> THEN <<>>
  ELSE (IF Head(h).valid /\ (k = 0 \/ Head(h).seg = k) THEN <<Head(h).rssi>> ELSE <<>>)
         \o HistRssi(Tail(h), k)

\* the segments the scan holds: the closed ones and, while scanning, the open one
HeldSegments ==
  IF pc = "scan" /\ current_segment # NoSegment
  THEN Append(signal_segments, current_segment)
  ELSE signal_segments

StoredCount == SumCounts(HeldSegments)

RowRead == nrows' = nrows + 1

\* the row read in this step was stored as the newest row of the open segment
RowStored ==
  /\ StoredCount' = StoredCount + 1
  /\ current_segment' # NoSegment
  /\ current_segment'.rssi_values[Len(current_segment'.rssi_values)] = row'.rssi
  /\ current_segment'.lat = row'.lat
  /\ current_segment'.lon = row'.lon

ScanFinished == pc = "filter" \/ (pc = "done" /\ ~warned)

(***************************************************************************)
(* C1: a parsed row is admitted (stored in a segment) if and only if       *)
(* rssi >= min_rssi and lat # 0 and lon # 0; in particular a row whose     *)
(* RSSI equals the threshold is admitted and a row with lat = 0 or lon = 0 *)
(* is rejected whatever its RSSI.                                          *)
(***************************************************************************)
C1_AdmissionRule ==
  [][(RowRead /\ row'.kind = "ok")
       => (RowStored <=> (row'.rssi >= min_rssi /\ row'.lat # 0 /\ row'.lon # 0))]_vars

\* a row exactly at the threshold has just been stored
C1_Witness ==
  /\ pc = "scan"
  /\ row.kind = "ok"
  /\ row.rssi = min_rssi
  /\ current_segment # NoSegment
  /\ current_segment.rssi_values[Len(current_segment.rssi_values)] = min_rssi
  /\ hist[Len(hist)].seg > 0

(***************************************************************************)
(* C2: processing a rejected row closes the open segment, if any, and      *)
(* leaves no segment open; hence two admitted rows with a rejected row     *)
(* between them are never stored in the same segment.                      *)
(***************************************************************************)
RejectCloses ==
  (RowRead /\ row'.kind = "ok"
     /\ (row'.rssi < min_rssi \/ row'.lat = 0 \/ row'.lon = 0))
    => /\ current_segment' = NoSegment
       /\ signal_segments' = IF current_segment # NoSegment
                             THEN Append(signal_segments, current_segment)
                             ELSE signal_segments

NoRejectedRowInside ==
  \A i, j, k \in 1..Len(hist) :
    (i < j /\ j < k /\ hist[i].seg > 0 /\ hist[i].seg = hist[k].seg)
      => ~(hist[j].kind = "ok" /\ ~hist[j].valid)

C2_RejectedRowEndsSegment == []NoRejectedRowInside /\ [][RejectCloses]_vars

\* admitted, rejected, admitted at the same position: two one-row segments
C2_Witness ==
  /\ pc = "scan"
  /\ Len(hist) = 3
  /\ hist[1].seg = 1
  /\ hist[2].kind = "ok" /\ ~hist[2].valid
  /\ hist[3].seg = 2
  /\ Len(signal_segments) = 1
  /\ current_segment # NoSegment
  /\ current_segment.lat = signal_segments[1].lat
  /\ current_segment.lon = signal_segments[1].lon

(***************************************************************************)
(* C3: an admitted row that arrives while a segment is open extends it iff *)
(* both |lat - segment.lat| < 0.0001 and |lon - segment.lon| < 0.0001      *)
(* (segment.lat/lon being the position of the row stored last); otherwise  *)
(* the open segment is closed and a one-row segment starts at the new      *)
(* position.  A latitude step of 0.00009 merges, one of 0.00011 splits.    *)
(***************************************************************************)
C3_ContinuityRule ==
  [][(RowRead /\ row'.kind = "ok" /\ current_segment # NoSegment
        /\ row'.rssi >= min_rssi /\ row'.lat # 0 /\ row'.lon # 0)
       => IF Abs(row'.lat - current_segment.lat) < 10
             /\ Abs(row'.lon - current_segment.lon) < 10
          THEN /\ signal_segments' = signal_segments
               /\ current_segment'.rssi_values
                    = Append(current_segment.rssi_values, row'.rssi)
               /\ current_segment'.count = current_segment.count + 1
               /\ current_segment'.lat = row'.lat
               /\ current_segment'.lon = row'.lon
          ELSE /\ signal_segments' = Append(signal_segments, current_segment)
               /\ current_segment'.rssi_values = <<row'.rssi>>
               /\ current_segment'.count = 1
               /\ current_segment'.lat = row'.lat
               /\ current_segment'.lon = row'.lon]_vars

\* rows at latitudes +11, +0, +9 (same longitude): the 11-unit step split,
\* the 9-unit step merged
C3_Witness ==
  /\ pc = "scan"
  /\ Len(hist) = 3
  /\ hist[1].seg = 1 /\ hist[2].seg = 2 /\ hist[3].seg = 2
  /\ signal_segments[1].lat = BaseLat + 11
  /\ signal_segments[1].lon = BaseLon
  /\ current_segment.lat = BaseLat + 9
  /\ current_segment.lon = BaseLon
  /\ current_segment.count = 2

(***************************************************************************)
(* C4: when the scan has finished, the closed segments partition the       *)
(* admitted rows: their RSSI lists, concatenated, are the RSSI values of   *)
(* the admitted rows in input order, each admitted row is in exactly one   *)
(* segment, every segment has at least one row, count = len(rssi_values),  *)
(* and the counts sum to the number of admitted rows.                      *)
(***************************************************************************)
C4_SegmentsPartitionAdmittedRows ==
  ScanFinished =>
    /\ FlatValues(signal_segments) = HistRssi(hist, 0)
    /\ \A k \in 1..Len(signal_segments) :
         /\ signal_segments[k].count >= 1
         /\ signal_segments[k].count = Len(signal_segments[k].rssi_values)
         /\ signal_segments[k].rssi_values = HistRssi(hist, k)
    /\ \A i \in 1..Len(hist) :
         hist[i].valid <=> hist[i].seg \in 1..Len(signal_segments)
    /\ SumCounts(signal_segments) = Cardinality({i \in 1..Len(hist) : hist[i].valid})

\* the scan ended with a segment still open, after at least two segments and
\* some row that was not admitted
C4_Witness ==
  /\ pc = "filter"
  /\ seg_idx = 1
  /\ Len(signal_segments) >= 2
  /\ hist[Len(hist)].seg = Len(signal_segments)
  /\ \E k \in 1..Len(signal_segments) : signal_segments[k].count >= 2
  /\ \E i \in 1..Len(hist) : ~hist[i].valid

(***************************************************************************)
(* C5: every SignalPoint built and returned by analyze_csv has             *)
(* duration >= 1.                                                          *)
(***************************************************************************)
C5_DurationAtLeastOne ==
  /\ \A i \in 1..Len(signal_points) : signal_points[i].duration >= 1
  /\ \A i \in 1..Len(result) : result[i].duration >= 1

\* points were returned, one of them for a segment that lost an outlier
C5_Witness ==
  /\ pc = "done"
  /\ Len(result) >= 2
  /\ \E i \in 1..Len(result) : result[i].duration = 1
  /\ \E i \in 1..Len(result) : result[i].duration = 4

(***************************************************************************)
(* C6: the SignalPoint emitted for a segment has the segment's (last)      *)
(* position, rssi_max = maximum of the outlier-filtered values, rssi_avg = *)
(* their mean, duration = their number.                                    *)
(***************************************************************************)
MaxOf(s) == CHOOSE m \in Range(s) : \A v \in Range(s) : v <= m

C6_PointOfSegment ==
  [][(pc = "filter" /\ seg_idx' = seg_idx + 1
        /\ Len(signal_points') = Len(signal_points) + 1)
       => LET segment == signal_segments[seg_idx]
              kept == remove_outliers(segment.rssi_values)
              point == signal_points'[Len(signal_points')]
          IN /\ point.lat = segment.lat
             /\ point.lon = segment.lon
             /\ point.rssi_max = MaxOf(kept)
             /\ point.rssi_avg = <<SumSeq(kept), Len(kept)>>
             /\ point.duration = Len(kept)]_vars

\* a point whose rssi_max is below the running maximum of its segment: the
\* strongest sample was removed as an outlier
C6_Witness ==
  /\ pc = "filter"
  /\ seg_idx > 1
  /\ Len(signal_points) = seg_idx - 1
  /\ signal_points[seg_idx - 1].rssi_max < signal_segments[seg_idx - 1].rssi_max
  /\ signal_points[seg_idx - 1].duration < signal_segments[seg_idx - 1].count

Ranked(s, k) ==
  CHOOSE v \in Range(s) :
    /\ Cardinality({i \in 1..Len(s) : s[i] < v}) <= k
    /\ k < Cardinality({i \in 1..Len(s) : s[i] <= v})

\* t is the subsequence of s, order kept, of the elements whose doubles lie in
\* [lo2, hi2]
IsFiltered(t, s, lo2, hi2) ==
  LET keep == {i \in 1..Len(s) : lo2 <= 2 * s[i] /\ 2 * s[i] <= hi2}
  IN /\ Len(t) = Cardinality(keep)
     /\ \A j \in 1..Len(t) :
          \E i \in keep : /\ Cardinality({h \in keep : h < i}) = j - 1
                          /\ t[j] = s[i]

C8_RemoveOutliersReference ==
  fpc = "cleaned" =>
    IF Len(values) < 4 THEN cleaned = values
    ELSE LET n == Len(values)
             Q1 == Ranked(values, n \div 4)
             Q3 == Ranked(values, (3 * n) \div 4)
             IQR == Q3 - Q1
         IN IsFiltered(cleaned, values, 2 * Q1 - 3 * IQR, 2 * Q3 + 3 * IQR)

\* an unsorted list with a duplicate from which an outlier was removed
C8_Witness ==
  /\ fpc = "cleaned"
  /\ Len(values) >= 5
  /\ Len(cleaned) = Len(values) - 1
  /\ values[1] > values[2]
  /\ \E i, j \in 1..Len(cleaned) : i < j /\ cleaned[i] = cleaned[j]
  /\ \E i, j \in 1..Len(cleaned) : i < j /\ cleaned[i] > cleaned[j]

(***************************************************************************)
(* C9 as stated: for every input of length >= 4 a second application of    *)
(* remove_outliers removes nothing more.                                   *)
(***************************************************************************)
C9_SecondPassRemovesNothing ==
  (fpc = "cleaned2" /\ Len(values) >= 4) => cleaned2 = cleaned

(***************************************************************************)
(* C9 amended: for every input of length >= 4 the second application       *)
(* returns a non-empty subsequence (order kept) of the first result, and   *)
(* removes nothing when the first result has fewer than 4 values or is the *)
(* input itself.                                                           *)
(***************************************************************************)
IsSubsequence(t, s) ==
  \E keep \in SUBSET (1..Len(s)) :
    /\ Len(t) = Cardinality(keep)
    /\ \A j \in 1..Len(t) :
         \E i \in keep : /\ Cardinality({h \in keep : h < i}) = j - 1
                         /\ t[j] = s[i]

C9_SecondPassBound ==
  (fpc = "cleaned2" /\ Len(values) >= 4) =>
    /\ cleaned2 # <<>>
    /\ IsSubsequence(cleaned2, cleaned)
    /\ (Len(cleaned) < 4 \/ cleaned = values) => cleaned2 = cleaned

\* the second pass removed something: the first left at least 4 values
C9_Witness ==
  /\ fpc = "cleaned2"
  /\ Len(values) >= 4
  /\ Len(cleaned) < Len(values)
  /\ Len(cleaned2) < Len(cleaned)

(***************************************************************************)
(* C10: count_oscillations(values, threshold) is the number of indices i   *)
(* with (values[i] >= threshold) # (values[i+1] >= threshold); it is 0 for *)
(* lists of length 0 or 1; [-90,-90,-90] at -95 gives 0 and                *)
(* [-90,-120,-90,-120] at -105 gives 3.                                    *)
(***************************************************************************)
C10_CrossingCount ==
  /\ fpc = "counted" =>
       /\ crossings = Cardinality({i \in 1..(Len(values) - 1) :
                         (values[i] >= threshold) # (values[i + 1] >= threshold)})
       /\ Len(values) < 2 => crossings = 0
  /\ count_oscillations(<<-90, -90, -90>>, -95) = 0
  /\ count_oscillations(<<-90, -120, -90, -120>>, -105) = 3

\* a list that crosses the threshold several times, one value on the threshold
C10_Witness ==
  /\ fpc = "counted"
  /\ crossings >= 3
  /\ \E i \in 1..Len(values) : values[i] = threshold

(***************************************************************************)
(* Helpers of the origin-estimator properties.                             *)
(***************************************************************************)
EstimateEnded == epc \in {"returned", "raised"}

\* position of est_points[i] in the order "greater rssi_max first, earlier
\* in the input first among equal rssi_max"
StrengthRank(i) ==
  1 + Cardinality({j \in 1..Len(est_points) :
                     \/ est_points[j].rssi_max > est_points[i].rssi_max
                     \/ /\ est_points[j].rssi_max = est_points[i].rssi_max
                        /\ j < i})

\* C11: estimate_signal_origin returns None exactly when the input list is
\* empty, and for every non-empty list it returns an estimate whose confidence
\* is an integer between 1 and the number of input points.
C11_EstimateUnlessEmpty ==
  EstimateEnded =>
    /\ (origin.kind = "None") <=> (est_points = <<>>)
    /\ est_points # <<>> =>
         /\ epc = "returned"
         /\ origin.kind = "estimate"
         /\ origin.confidence \in 1..Len(est_points)

\* a call on two points whose rssi_max are both 0 has ended
C11_Witness ==
  /\ EstimateEnded
  /\ Len(est_points) = 2
  /\ \A i \in 1..2 : est_points[i].rssi_max = 0

\* C12 as claimed: for two or more points the number of strong signals, which
\* is the returned confidence, is max(2, ceil(0.6 * N)).
C12_StrongCountRoundedUp ==
  (epc = "returned" /\ Len(est_points) >= 2) =>
    LET k == origin.confidence
    IN /\ k = Len(est_strong)
       /\ k >= 2
       /\ 5 * k >= 3 * Len(est_points)
       /\ (k > 2 => 5 * (k - 1) < 3 * Len(est_points))

\* C12: for two or more points the number of strong signals used is
\* max(2, floor(0.6 * N)), and it is the confidence of every estimate returned.
C12_StrongCountTruncated ==
  (EstimateEnded /\ Len(est_points) >= 2) =>
    LET k == Len(est_strong)
    IN /\ k >= 2
       /\ (k > 2 => 5 * k <= 3 * Len(est_points))
       /\ 5 * (k + 1) > 3 * Len(est_points)
       /\ (epc = "returned" => origin.confidence = k)

\* four points give two strong signals, where rounding up would give three
C12_Witness ==
  /\ epc = "returned"
  /\ Len(est_points) = 4
  /\ Len(est_strong) = 2
  /\ origin.confidence = 2

\* C13: the strong signals are the points of highest rssi_max: no point left
\* out has a greater rssi_max than a point taken, and among points of equal
\* rssi_max the ones earlier in the input list are taken first.
C13_StrongestFirstStable ==
  (EstimateEnded /\ Len(est_points) >= 2) =>
    /\ Len(est_strong) <= Len(est_points)
    /\ \A i \in 1..Len(est_points) :
         StrengthRank(i) <= Len(est_strong) =>
           est_strong[StrengthRank(i)] = est_points[i]

\* a point is left out while a point of equal rssi_max, earlier in the input
\* and at another place, is taken
C13_Witness ==
  /\ epc = "returned"
  /\ \E i, j \in 1..Len(est_points) :
       /\ i < j
       /\ est_points[i].rssi_max = est_points[j].rssi_max
       /\ est_points[i].lat # est_points[j].lat
       /\ StrengthRank(i) <= Len(est_strong)
       /\ StrengthRank(j) > Len(est_strong)

\* fractions <<n, d>> with d # 0
FracEq(a, b) == a[1] * b[2] = b[1] * a[2]

\* x <= a <= y for integers x <= y
FracBetween(a, x, y) ==
  IF a[2] > 0 THEN x * a[2] <= a[1] /\ a[1] <= y * a[2]
  ELSE x * a[2] >= a[1] /\ a[1] >= y * a[2]

\* sum over the points of s of coordinate * rssi_max, and of rssi_max
WeightedTotal(s, axis) ==
  LET f[k \in 0..Len(s)] ==
        IF k = 0 THEN 0
        ELSE f[k - 1] + (IF axis = "lat" THEN s[k].lat ELSE s[k].lon) * s[k].rssi_max
  IN f[Len(s)]

WeightTotal(s) ==
  LET f[k \in 0..Len(s)] == IF k = 0 THEN 0 ELSE f[k - 1] + s[k].rssi_max
  IN f[Len(s)]

Lats(s) == {s[i].lat : i \in 1..Len(s)}
Lons(s) == {s[i].lon : i \in 1..Len(s)}
SetMax(S) == CHOOSE m \in S : \A v \in S : v <= m
SetMin(S) == CHOOSE m \in S : \A v \in S : v >= m

\* squared distance from the estimate o to the point p, scaled by the squared
\* denominators of o.lat and o.lon (by one of them when they are equal)
Dist2(o, p) ==
  LET dlat == o.lat[1] - p.lat * o.lat[2]
      dlon == o.lon[1] - p.lon * o.lon[2]
  IN IF o.lat[2] = o.lon[2]
     THEN dlat * dlat + dlon * dlon
     ELSE dlat * dlat * o.lon[2] * o.lon[2] + dlon * dlon * o.lat[2] * o.lat[2]

\* C14: ns_span and ew_span are the latitude and longitude extents of the
\* strong signals; when ns_span >= ew_span (ties included) the latitude is the
\* rssi_max-weighted average of the northmost and southmost latitudes only and
\* the longitude the rssi_max-weighted average over all strong signals; when
\* ew_span > ns_span the roles of latitude and longitude are swapped.
C14_DominantAxisRule ==
  (epc = "returned" /\ Len(est_points) >= 2) =>
    LET ns == SetMax(Lats(est_strong)) - SetMin(Lats(est_strong))
        ew == SetMax(Lons(est_strong)) - SetMin(Lons(est_strong))
        all_lat == <<WeightedTotal(est_strong, "lat"), WeightTotal(est_strong)>>
        all_lon == <<WeightedTotal(est_strong, "lon"), WeightTotal(est_strong)>>
    IN /\ origin.ns_span = ns
       /\ origin.ew_span = ew
       /\ IF ns >= ew
          THEN /\ \E i, j \in 1..Len(est_strong) :
                    /\ est_strong[i].lat = SetMax(Lats(est_strong))
                    /\ est_strong[j].lat = SetMin(Lats(est_strong))
                    /\ FracEq(origin.lat,
                              <<WeightedTotal(<<est_strong[i], est_strong[j]>>, "lat"),
                                WeightTotal(<<est_strong[i], est_strong[j]>>)>>)
               /\ FracEq(origin.lon, all_lon)
          ELSE /\ \E i, j \in 1..Len(est_strong) :
                    /\ est_strong[i].lon = SetMax(Lons(est_strong))
                    /\ est_strong[j].lon = SetMin(Lons(est_strong))
                    /\ FracEq(origin.lon,
                              <<WeightedTotal(<<est_strong[i], est_strong[j]>>, "lon"),
                                WeightTotal(<<est_strong[i], est_strong[j]>>)>>)
               /\ FracEq(origin.lat, all_lat)

\* equal non-zero spans over three strong signals, and the latitude of the
\* north-south pair differs from the average over all strong signals
C14_Witness ==
  /\ epc = "returned"
  /\ Len(est_strong) >= 3
  /\ origin.ns_span = origin.ew_span
  /\ origin.ns_span > 0
  /\ ~FracEq(origin.lat, <<WeightedTotal(est_strong, "lat"), WeightTotal(est_strong)>>)

\* C15: for two points A and B at different positions with negative rssi_max
\* and A the stronger, the origin over [A, B] has confidence 2, lies between A
\* and B in latitude and longitude, and is strictly closer to A than to B.
C15_CloserToStronger ==
  (/\ epc = "returned"
   /\ Len(est_points) = 2
   /\ est_points[1].rssi_max < 0
   /\ est_points[2].rssi_max < est_points[1].rssi_max
   /\ <<est_points[1].lat, est_points[1].lon>> # <<est_points[2].lat, est_points[2].lon>>) =>
    LET A == est_points[1]
        B == est_points[2]
    IN /\ origin.confidence = 2
       /\ FracBetween(origin.lat, SetMin({A.lat, B.lat}), SetMax({A.lat, B.lat}))
       /\ FracBetween(origin.lon, SetMin({A.lon, B.lon}), SetMax({A.lon, B.lon}))
       /\ Dist2(origin, A) < Dist2(origin, B)

\* the origin over [A, B], A the stronger, is strictly closer to the weaker B
C15_Witness ==
  /\ epc = "returned"
  /\ Len(est_points) = 2
  /\ est_points[1].rssi_max < 0
  /\ est_points[2].rssi_max < est_points[1].rssi_max
  /\ Dist2(origin, est_points[2]) < Dist2(origin, est_points[1])

\* C16: for every list of two or more points whose rssi_max are at most 0 the
\* call divides by no zero: the weight of the extreme pair and the weight of
\* all strong signals are both non-zero.
C16_NoDivisionByZero ==
  (EstimateEnded /\ Len(est_points) >= 2) =>
    /\ epc # "raised"
    /\ WeightTotal(est_strong) # 0

\* the call raised although it had strong signals
C16_Witness ==
  /\ epc = "raised"
  /\ Len(est_strong) >= 2
  /\ origin.kind = "ZeroDivisionError"

\* C17: a list of one point returns that point's latitude and longitude with
\* ns_span 0, ew_span 0 and confidence 1, whatever its rssi_max.
C17_SinglePoint ==
  (EstimateEnded /\ Len(est_points) = 1) =>
    /\ epc = "returned"
    /\ origin.kind = "estimate"
    /\ FracEq(origin.lat, <<est_points[1].lat, 1>>)
    /\ FracEq(origin.lon, <<est_points[1].lon, 1>>)
    /\ origin.lat[2] # 0
    /\ origin.lon[2] # 0
    /\ origin.ns_span = 0
    /\ origin.ew_span = 0
    /\ origin.confidence = 1

\* the call on one point of rssi_max 0 has returned
C17_Witness ==
  /\ epc = "returned"
  /\ Len(est_points) = 1
  /\ est_points[1].rssi_max = 0
  /\ origin.confidence = 1

(***************************************************************************)
(* Helpers of the update_analysis properties.                              *)
(***************************************************************************)
AnalysisShown == upc = "done" /\ self_file_datasets # <<>>

\* the positions (from 1) of the files of file_list that gave points
FilesWithPoints ==
  LET f[k \in 0..Len(file_list)] ==
        IF k = 0 THEN <<>>
        ELSE IF file_list[k].points # <<>> THEN Append(f[k - 1], k) ELSE f[k - 1]
  IN f[Len(file_list)]

\* the points of all files, concatenated in file-list order
PointsOfFiles ==
  LET f[k \in 0..Len(file_list)] ==
        IF k = 0 THEN <<>> ELSE f[k - 1] \o file_list[k].points
  IN f[Len(file_list)]

\* the estimate inside an origin, without the dataset tags
EstimateOf(o) ==
  [kind |-> o.kind, lat |-> o.lat, lon |-> o.lon, ns_span |-> o.ns_span,
   ew_span |-> o.ew_span, confidence |-> o.confidence]

\* the points of the checked datasets, in dataset order
CheckedPoints ==
  LET f[k \in 0..Len(self_file_datasets)] ==
        IF k = 0 THEN <<>>
        ELSE IF dataset_checkboxes[k] THEN f[k - 1] \o self_file_datasets[k].points
        ELSE f[k - 1]
  IN f[Len(self_file_datasets)]

\* the origin markers of the checked datasets, in dataset order
CheckedOrigins ==
  LET f[k \in 0..Len(self_file_datasets)] ==
        IF k = 0 THEN <<>>
        ELSE IF dataset_checkboxes[k]
             THEN Append(f[k - 1],
                         [lat |-> self_file_datasets[k].origin.lat,
                          lon |-> self_file_datasets[k].origin.lon,
                          confidence |-> self_file_datasets[k].origin.confidence,
                          color |-> self_file_datasets[k].color,
                          name |-> self_file_datasets[k].filename,
                          type |-> "individual"])
             ELSE f[k - 1]
  IN f[Len(self_file_datasets)]

CombinedChecked == dataset_checkboxes[Len(dataset_checkboxes)]

ShownOfType(t) == SelectSeq(shown.origins, LAMBDA o : o.type = t)

\* C18: after update_analysis every file's origin is estimate_signal_origin of
\* that file's points alone, and the combined origin is estimate_signal_origin
\* of all files' points concatenated in file-list order; the per-file origins
\* play no part in it.
C18_OriginsFromPoints ==
  AnalysisShown =>
    /\ Len(self_file_datasets) = Len(FilesWithPoints)
    /\ \A k \in 1..Len(self_file_datasets) :
         EstimateOf(self_file_datasets[k].origin)
           = estimate_signal_origin(file_list[FilesWithPoints[k]].points)
    /\ EstimateOf(current_origin) = estimate_signal_origin(PointsOfFiles)

\* three files gave points, and the combined origin is none of their origins
C18_Witness ==
  /\ AnalysisShown
  /\ Len(self_file_datasets) = 3
  /\ current_origin.confidence = 2
  /\ \A k \in 1..3 :
       EstimateOf(self_file_datasets[k].origin) # EstimateOf(current_origin)

\* C19: the points and the origin of the file at position idx of the file list
\* carry dataset_id = idx, the colour idx mod 8 of the palette and the file's
\* base name, also when earlier files gave no points; the combined origin
\* carries dataset_id -1, which no file has.
C19_DatasetTags ==
  AnalysisShown =>
    /\ Len(self_file_datasets) = Len(FilesWithPoints)
    /\ \A k \in 1..Len(self_file_datasets) :
         LET pos == FilesWithPoints[k] - 1
             HasTags(d) ==
               /\ d.dataset_id = pos
               /\ d.dataset_color = dataset_colors[(pos % 8) + 1]
               /\ d.dataset_name = file_list[pos + 1].path[2]
               /\ d.dataset_id # current_origin.dataset_id
         IN /\ HasTags(self_file_datasets[k].origin)
            /\ \A j \in 1..Len(self_file_datasets[k].points) :
                 HasTags(self_file_datasets[k].points[j])
    /\ current_origin.dataset_id = -1

\* the ninth file gave points and has the first colour again, after a file
\* that gave no points
C19_Witness ==
  /\ AnalysisShown
  /\ \E k \in 1..Len(self_file_datasets) :
       /\ self_file_datasets[k].origin.dataset_id = 8
       /\ self_file_datasets[k].origin.dataset_color = dataset_colors[1]
       /\ k < 9

\* C20: after an analysis and any sequence of checkbox toggles, the map shows
\* exactly the checked datasets and, when the combined checkbox is checked,
\* the origin estimate_signal_origin gives for the checked datasets' points
\* (no combined origin otherwise), for every subset including the empty one,
\* and no file was parsed again.
C20_DisplayFollowsCheckboxes ==
  AnalysisShown =>
    LET combined == estimate_signal_origin(CheckedPoints)
    IN /\ parsed = Len(file_list)
       /\ shown.points = CheckedPoints
       /\ ShownOfType("individual") = CheckedOrigins
       /\ ShownOfType("combined") =
            IF CombinedChecked /\ combined.kind = "estimate"
            THEN <<[lat |-> combined.lat, lon |-> combined.lon,
                    confidence |-> combined.confidence,
                    color |-> CombinedColor, name |-> CombinedName,
                    type |-> "combined"]>>
            ELSE <<>>

\* every dataset is unchecked and the map still shows points
C20_Witness ==
  /\ AnalysisShown
  /\ \A k \in 1..Len(self_file_datasets) : ~dataset_checkboxes[k]
  /\ shown.points # <<>>

\* C21: a malformed row (a non-numeric or missing RSSI, latitude or longitude)
\* is skipped on its own: reading it changes nothing the scan carries forward
\* (the open segment, the closed segments, the control position), so the
\* result is that of the same rows without it, no warning is shown and the
\* rows after it are still read.
C21_MalformedRowSkipped ==
  [][(RowRead /\ row'.kind \in {"bad", "short"}) =>
       /\ UNCHANGED <<current_segment, signal_segments, result>>
       /\ pc' = "scan"
       /\ ~warned']_vars

\* a row with a missing field was read after a stored row, and the call ended
\* with the warning and no points
C21_Witness ==
  /\ pc = "done"
  /\ warned
  /\ result = <<>>
  /\ row.kind = "short"
  /\ \E k \in 1..Len(hist) : hist[k].seg > 0

\* nothing was produced, stored or drawn since the window was constructed
AnalysisUntouched ==
  /\ file_datasets = <<>>
  /\ all_signal_points = <<>>
  /\ self_file_datasets = <<>>
  /\ current_signal_points = <<>>
  /\ current_origin = NoneOrigin
  /\ dataset_checkboxes = <<>>
  /\ shown = BlankMap

SomeFileMissing == \E k \in 1..Len(file_list) : ~file_list[k].exists

SomeFileUnreadable == \E k \in 1..Len(file_list) : ~file_list[k].readable

\* C22 as claimed: in a run on several files, a file that is missing or cannot
\* be read aborts the batch: no points or origin of any file are produced or
\* displayed and the stored analysis state stays as it was.
C22_BadFileAbortsBatch ==
  (Len(file_list) >= 2 /\ SomeFileUnreadable) => AnalysisUntouched

\* C22: a missing file aborts the run before any file is parsed and leaves the
\* stored state and the map as they were; the run is aborted nowhere else, so
\* a file that exists but cannot be read only contributes no points: every
\* file is parsed and the files that gave points are stored.
C22_MissingAbortsUnreadableSkipped ==
  /\ SomeFileMissing => (upc \in {"start", "warned"} /\ parsed = 0 /\ AnalysisUntouched)
  /\ upc = "warned" => (parsed = 0 /\ AnalysisUntouched)
  /\ upc = "done" =>
       /\ parsed = Len(file_list)
       /\ Len(self_file_datasets) = Len(FilesWithPoints)
       /\ Len(current_signal_points) = Len(PointsOfFiles)

\* the first file cannot be read and the map shows the points of a later file
C22_Witness ==
  /\ upc = "done"
  /\ Len(file_list) >= 2
  /\ ~file_list[1].readable
  /\ shown.points # <<>>
  /\ self_file_datasets # <<>>

(***************************************************************************)
(* calculate_color                                                         *)
(***************************************************************************)
TierBounds == {5, 10, 15, 20}

\* the tier of a value: the number of lower bounds it has reached
TierOf(a) == Cardinality({b \in TierBounds : a >= b})

\* C23: calculate_color is a step function with the inclusive lower bounds
\* 20, 15, 10 and 5: two arguments get the same colour exactly when they
\* reach the same lower bounds, so the five tiers have five pairwise
\* distinct colours, each of 20, 15, 10, 5 belongs to the tier above it and
\* 0 to the lowest tier.
C23_ColorTiers ==
  color_ret # NoColor =>
    \A b \in ColorArgs :
      (TierOf(b) = TierOf(color_arg)) <=> (calculate_color(b) = color_ret)

C23_Witness == color_arg = 20 /\ color_ret = "#00FF00"

(***************************************************************************)
(* gui_log                                                                 *)
(***************************************************************************)
RECURSIVE Flatten(_)
Flatten(ss) == IF ss = <<>> THEN <<>> ELSE Head(ss) \o Flatten(Tail(ss))

\* the messages a get_logs call has taken out of gui_log and not yet returned
Drained ==
  IF \E c \in Callers : get_pc[c] = "return"
    THEN msgs[CHOOSE c \in Callers : get_pc[c] = "return"]
    ELSE <<>>

Numbered(n) == [k \in 1..n |-> k]

\* C24: under every interleaving of gps_reader and the callers of get_logs,
\* the lists get_logs has returned, followed by what a call in progress has
\* taken and by what is still in gui_log, are the logged messages in the
\* order they were appended, each exactly once; a call that is about to
\* return has left gui_log empty.  So every call returns the whole buffer,
\* no message is returned twice, and a call without an append since the
\* previous call returns the empty list.
C24_EachMessageReturnedOnce ==
  /\ Flatten(returned) \o Drained \o gui_log = Numbered(appended)
  /\ \A c \in Callers : get_pc[c] = "return" => gui_log = <<>>

C24_Witness ==
  /\ Len(returned) = 3
  /\ returned[1] = <<1, 2>>
  /\ returned[2] = <<>>
  /\ returned[3] = <<3>>

(***************************************************************************)
(* _nmea_to_decimal                                                        *)
(***************************************************************************)
RECURSIVE GCD(_, _)
GCD(a, b) == IF b = 0 THEN a ELSE GCD(b, a % b)

\* a fraction in lowest terms, the sign on the numerator
Lowest(n, d) ==
  LET g == GCD(Abs(n), d)
  IN <<n \div g, d \div g>>

\* ddmm.mmmm or dddmm.mmmm: digits only around one '.', two or three digits
\* of degrees, two of minutes, at least one of fraction
NmeaForm(c) ==
  /\ find(c, ".") \in {4, 5}
  /\ Len(c) > find(c, ".") + 1
  /\ \A i \in 1..Len(c) : i # find(c, ".") + 1 => IsDigit(c[i])

\* degrees + minutes/60 as the claim reads the digits, in units of
\* 1 / (60 * 10^f) for f digits of fraction
NmeaDegrees(c) == DigitsValue(SubSeq(c, 1, find(c, ".") - 2))

NmeaMinuteDigits(c) ==
  SubSeq(c, find(c, ".") - 1, find(c, ".")) \o SubSeq(c, find(c, ".") + 2, Len(c))

NmeaFractionLen(c) == Len(c) - find(c, ".") - 1

NmeaExpected(c) ==
  Lowest(NmeaDegrees(c) * 60 * PowerOfTen(NmeaFractionLen(c))
           + DigitsValue(NmeaMinuteDigits(c)),
         60 * PowerOfTen(NmeaFractionLen(c)))

\* C25: for a coord of the form ddmm.mmmm or dddmm.mmmm the result is
\* degrees + minutes/60 (minutes: the two digits before the '.' with the
\* fraction, degrees: the digits before them), negated exactly for hemi 'S'
\* or 'W'; the result is None when coord is empty or has no '.'.
C25_NmeaToDecimal ==
  dec # NotCalled =>
    /\ NmeaForm(coord) =>
         /\ dec.kind = "float"
         /\ Lowest(Abs(dec.num), dec.den) = NmeaExpected(coord)
         /\ hemi \in {"S", "W"} => dec.num <= 0
         /\ hemi \notin {"S", "W"} => dec.num >= 0
    /\ (coord = <<>> \/ \A i \in 1..Len(coord) : coord[i] # ".") => dec = NoneDec

C25_Witness ==
  /\ coord = <<"0", "5", "5", "0", "5", ".", "5">>
  /\ hemi = "W"
  /\ dec = Float(-33055, 600)

(***************************************************************************)
(* remove_outliers never falls back                                        *)
(***************************************************************************)
Quartile1(vals) == Sorted(vals)[(Len(vals) \div 4) + 1]

Quartile3(vals) == Sorted(vals)[((3 * Len(vals)) \div 4) + 1]

\* q1 - 1.5*iqr <= v <= q3 + 1.5*iqr for the quartiles of vals
WithinFences(v, vals) ==
  LET iqr == Quartile3(vals) - Quartile1(vals)
  IN /\ 2 * Quartile1(vals) - 3 * iqr <= 2 * v
     /\ 2 * v <= 2 * Quartile3(vals) + 3 * iqr

AboveOwnThreshold(segment) ==
  \A j \in 1..Len(segment.rssi_values) :
    segment.rssi_values[j] >= segment.min_rssi_threshold

AllNegative(pts) == \A k \in 1..Len(pts) : pts[k].rssi_max < 0

C29_MarkerOnRisingEdge ==
  /\ poll.attempted <=> (poll.evaluated /\ poll.above /\ poll.prev # "above")
  /\ poll.added => poll.attempted
  /\ poll.run_added <= 1
  /\ poll.run_skipped => poll.run_added = 0

\* a call with a fix and rssi_dbm at or above the trigger, after the attempt
\* of the same run was skipped: no marker is attempted
C29_Witness ==
  /\ poll.run_skipped
  /\ poll.evaluated
  /\ poll.above
  /\ ~poll.attempted
  /\ triggered_markers = <<0>>
  /\ last_triggered_state

(***************************************************************************)
(* The CSV logging session of the map window                               *)
(***************************************************************************)
\* C30: under every interleaving of the sampler thread's log_rssi_sample
\* with start_new_session, stop_session and the pause toggle on the GUI
\* thread, every writerow of log_rssi_sample goes to a file that is open,
\* while the session is not paused.
C30_RowsOnlyToOpenSession ==
  last_write # NoWrite => (last_write.open /\ ~last_write.paused)

\* log_rssi_sample has called writerow on the file stop_session had closed
\* and not yet detached
C30_Witness ==
  /\ last_write # NoWrite
  /\ ~last_write.open
  /\ gui_pc = "stop_file"
  /\ csv_writer = last_write.file

====
